---- MODULE Spec2Model ----
(***************************************************************************)
(* Evaluation pipeline of cloud-function/main.py: one HTTP request handled *)
(* by evaluate_image_prompt, which resolves the mode, runs                 *)
(* evaluate_single_sample (generate -> store artifact -> append record ->  *)
(* judge -> score) and returns a response or raises.                       *)
(*                                                                         *)
(* Python strings are modelled as sequences of tokens (a token is a TLA+   *)
(* string standing for a run of characters; "," is the comma token).       *)
(* Scores are fixed-point numbers in millionths: the float 0.5 is 500000.  *)
(***************************************************************************)
EXTENDS Integers, Sequences, FiniteSets, TLC

VARIABLES
    env,                    \* os.environ: the configuration the code reads
    pc,                     \* position of the request inside the handler
    data,                   \* request.get_json(): field name -> string
    optimized_prompt,       \* locals of evaluate_image_prompt
    input_image_url,
    unique_id,
    mode_type,
    reference_image_url,
    quality_specification,
    generated_image_bytes,  \* locals of evaluate_single_sample
    generated_image_url,
    judge_request,          \* what was sent to the judging model
    bucket,                 \* artifact sink: set of stored objects
    records,                \* record sink: sequence of appended rows
    calls,                  \* how often each step's function was entered
    evaluation_text,        \* the judging model's answer, once received
    total_scores,           \* the rubric totals computed from the answer
    failures,               \* history: the steps whose call failed
    sample_outcome,         \* (score, explanation) of evaluate_single_sample
    result,                 \* response returned by evaluate_image_prompt
    raised,                 \* message of the exception it raised
    probe,                  \* two score differences and their normalized scores
    batch_pc,               \* position of the batch run
    batch_error,            \* the error a batch run surfaced
    samples,                \* the rows the sample store returned, in order
    next_sample,            \* index of the next sample to hand to the pool
    in_flight,              \* indices of the samples a worker is evaluating
    peak_in_flight,         \* history: the largest number in flight so far
    evaluations,            \* history: index -> how often it was evaluated
    generation_failed,      \* history: indices for which no image came back
    outcomes,               \* aggregate result: sample id -> score
    generation,             \* a call of generate_image_with_gemini and its result
    extraction,             \* a judgment text and what the evaluators made of it
    insertion,              \* a call of store_generation_record and its result
    invocations,            \* concurrent calls of evaluate_single_sample: id -> locals
    bucket_exists           \* whether the artifact sink's bucket has been created

\* the variables of one request
request_vars == <<env, pc, data, optimized_prompt, input_image_url, unique_id,
                  mode_type, reference_image_url, quality_specification,
                  generated_image_bytes, generated_image_url, judge_request,
                  bucket, records, calls, evaluation_text, total_scores, failures,
                  sample_outcome, result, raised>>

\* the variables of the normalization probe
scoring_vars == <<probe>>

\* the variables of a batch run
batch_vars == <<batch_pc, batch_error, samples, next_sample, in_flight,
                peak_in_flight, evaluations, generation_failed, outcomes>>

\* the variables of the calls made on their own: gateway, parser, record sink
unit_vars == <<generation, extraction, insertion>>

\* the variables of the evaluations that run concurrently
concurrent_vars == <<invocations, bucket_exists>>

vars == <<request_vars, scoring_vars, batch_vars, unit_vars, concurrent_vars>>

----------------------------------------------------------------------------
(* Python values *)

\* 1.0 in fixed point
Scale == 10^6

\* Python's None, as a string value no request can carry
None == <<"<None>">>

\* an environment variable that is not set
Unset == "<unset>"

\* the empty Python string
EmptyStr == <<>>

\* os.environ.get(name, default)
EnvGet(e, name, default) == IF e[name] = Unset THEN default ELSE e[name]

\* dict.get(key, default) on the request body
DataGet(d, key, default) == IF key \in DOMAIN d THEN d[key] ELSE default

\* str.find(tok): 0-based index of the first occurrence, -1 when absent
Find(s, tok) ==
    IF \E i \in 1..Len(s) : s[i] = tok
    THEN (CHOOSE i \in 1..Len(s) : s[i] = tok /\ \A j \in 1..(i-1) : s[j] # tok) - 1
    ELSE -1

\* str.rfind(tok): 0-based index of the last occurrence, -1 when absent
RFind(s, tok) ==
    IF \E i \in 1..Len(s) : s[i] = tok
    THEN (CHOOSE i \in 1..Len(s) : s[i] = tok /\ \A j \in (i+1)..Len(s) : s[j] # tok) - 1
    ELSE -1

\* s[start:end] with 0-based, end-exclusive indices
Slice(s, start, end) == SubSeq(s, start + 1, end)

\* the split made at the last comma (rsplit) instead of the first
SplitFirstComma_at_last(s) ==
    LET i == RFind(s, ",")
    IN <<Slice(s, 0, i), Slice(s, i + 1, Len(s))>>

\* s.split(",", 1) when "," in s: <<text before the first comma, the rest>>
SplitFirstComma(s) ==
    LET i == Find(s, ",")
    IN <<Slice(s, 0, i), Slice(s, i + 1, Len(s))>>

\* the clamp with its upper bound forgotten: max(0.0, score)
Clamp01_no_upper(score) == IF score > 0 THEN score ELSE 0

\* max(0.0, min(1.0, score))
Clamp01(score) ==
    LET m == IF score < Scale THEN score ELSE Scale
    IN IF m > 0 THEN m ELSE 0

----------------------------------------------------------------------------
(* Registries and the Mode/Criteria Resolver *)

ComprehensiveCategories ==
    <<"pet_likeness", "pose_expression", "art_style_consistency",
      "color_harmony", "background_quality", "technical_execution",
      "visual_appeal", "composition_proportion", "detail_balance",
      "gift_marketability">>

SimplifiedCategories ==
    <<"pet_likeness", "visual_appeal", "technical_execution",
      "composition_proportion", "gift_marketability">>

ArtisticCategories ==
    <<"art_style_consistency", "color_harmony", "visual_appeal",
      "technical_execution", "composition_proportion",
      "creative_interpretation">>

\* the rubric registry: name -> rubric (prompt is identified by its rubric)
EVALUATION_CRITERIA ==
    [comprehensive |-> [name |-> "Comprehensive Pet Portrait Evaluation",
                        categories |-> ComprehensiveCategories,
                        prompt |-> "comprehensive_prompt"],
     simplified    |-> [name |-> "Simplified Pet Portrait Evaluation",
                        categories |-> SimplifiedCategories,
                        prompt |-> "simplified_prompt"],
     artistic      |-> [name |-> "Artistic Quality Evaluation",
                        categories |-> ArtisticCategories,
                        prompt |-> "artistic_prompt"]]

\* the mode registry
EVALUATION_MODES ==
    [reference_comparison |-> [name |-> "Reference Comparison Mode",
                               requires_reference |-> TRUE],
     standalone_quality   |-> [name |-> "Standalone Quality Mode",
                               requires_reference |-> FALSE]]

\* get_evaluation_criteria, as the registry key it resolves to
criteria_type_of(e) ==
    LET criteria_type == EnvGet(e, "EVALUATION_CRITERIA", "comprehensive")
    IN IF criteria_type \notin DOMAIN EVALUATION_CRITERIA
       THEN "comprehensive"
       ELSE criteria_type

get_evaluation_criteria(e) == EVALUATION_CRITERIA[criteria_type_of(e)]

\* the resolver falling back to the wrong registry entry
get_evaluation_mode_wrong_default(e) ==
    LET configured == EnvGet(e, "EVALUATION_MODE", "standalone_quality")
        resolved == IF configured \notin DOMAIN EVALUATION_MODES
                    THEN "standalone_quality"
                    ELSE configured
    IN <<resolved, EVALUATION_MODES[resolved]>>

\* get_evaluation_mode: <<mode_type, mode>>
get_evaluation_mode(e) ==
    LET configured == EnvGet(e, "EVALUATION_MODE", "reference_comparison")
        resolved == IF configured \notin DOMAIN EVALUATION_MODES
                    THEN "reference_comparison"
                    ELSE configured
    IN <<resolved, EVALUATION_MODES[resolved]>>

----------------------------------------------------------------------------
(* Scoring Engine *)

\* round(10^6 / (1 + exp(-d / 20.0))) for d = -300 .. 300
SigmoidTable ==
  <<
     0, 0, 0, 0, 0, 0, 0, 0, 0, 0,
     1, 1, 1, 1, 1, 1, 1, 1, 1, 1,
     1, 1, 1, 1, 1, 1, 1, 1, 1, 1,
     1, 1, 2, 2, 2, 2, 2, 2, 2, 2,
     2, 2, 2, 3, 3, 3, 3, 3, 3, 4,
     4, 4, 4, 4, 5, 5, 5, 5, 6, 6,
     6, 6, 7, 7, 8, 8, 8, 9, 9, 10,
     10, 11, 11, 12, 12, 13, 14, 14, 15, 16,
     17, 18, 18, 19, 20, 21, 23, 24, 25, 26,
     28, 29, 30, 32, 34, 35, 37, 39, 41, 43,
     45, 48, 50, 53, 55, 58, 61, 64, 68, 71,
     75, 79, 83, 87, 91, 96, 101, 106, 112, 117,
     123, 130, 136, 143, 151, 158, 167, 175, 184, 194,
     203, 214, 225, 236, 248, 261, 275, 289, 303, 319,
     335, 353, 371, 390, 410, 431, 453, 476, 500, 526,
     553, 581, 611, 642, 675, 710, 746, 784, 824, 867,
     911, 958, 1007, 1058, 1113, 1170, 1229, 1292, 1359, 1428,
     1501, 1578, 1659, 1744, 1833, 1927, 2025, 2129, 2238, 2352,
     2473, 2599, 2732, 2872, 3018, 3173, 3335, 3505, 3684, 3872,
     4070, 4278, 4496, 4726, 4967, 5220, 5486, 5766, 6060, 6369,
     6693, 7034, 7392, 7768, 8163, 8577, 9013, 9471, 9952, 10457,
     10987, 11544, 12128, 12742, 13387, 14064, 14774, 15520, 16302, 17124,
     17986, 18891, 19840, 20836, 21881, 22977, 24127, 25333, 26597, 27923,
     29312, 30769, 32295, 33895, 35571, 37327, 39166, 41091, 43107, 45217,
     47426, 49737, 52154, 54681, 57324, 60087, 62973, 65989, 69138, 72426,
     75858, 79439, 83173, 87066, 91123, 95349, 99750, 104331, 109097, 114052,
     119203, 124553, 130108, 135873, 141851, 148047, 154465, 161109, 167982, 175086,
     182426, 190002, 197816, 205870, 214165, 222700, 231475, 240489, 249740, 259225,
     268941, 278885, 289050, 299433, 310026, 320821, 331812, 342990, 354344, 365864,
     377541, 389361, 401312, 413382, 425557, 437823, 450166, 462570, 475021, 487503,
     500000, 512497, 524979, 537430, 549834, 562177, 574443, 586618, 598688, 610639,
     622459, 634136, 645656, 657010, 668188, 679179, 689974, 700567, 710950, 721115,
     731059, 740775, 750260, 759511, 768525, 777300, 785835, 794130, 802184, 809998,
     817574, 824914, 832018, 838891, 845535, 851953, 858149, 864127, 869892, 875447,
     880797, 885948, 890903, 895669, 900250, 904651, 908877, 912934, 916827, 920561,
     924142, 927574, 930862, 934011, 937027, 939913, 942676, 945319, 947846, 950263,
     952574, 954783, 956893, 958909, 960834, 962673, 964429, 966105, 967705, 969231,
     970688, 972077, 973403, 974667, 975873, 977023, 978119, 979164, 980160, 981109,
     982014, 982876, 983698, 984480, 985226, 985936, 986613, 987258, 987872, 988456,
     989013, 989543, 990048, 990529, 990987, 991423, 991837, 992232, 992608, 992966,
     993307, 993631, 993940, 994234, 994514, 994780, 995033, 995274, 995504, 995722,
     995930, 996128, 996316, 996495, 996665, 996827, 996982, 997128, 997268, 997401,
     997527, 997648, 997762, 997871, 997975, 998073, 998167, 998256, 998341, 998422,
     998499, 998572, 998641, 998708, 998771, 998830, 998887, 998942, 998993, 999042,
     999089, 999133, 999176, 999216, 999254, 999290, 999325, 999358, 999389, 999419,
     999447, 999474, 999500, 999524, 999547, 999569, 999590, 999610, 999629, 999647,
     999665, 999681, 999697, 999711, 999725, 999739, 999752, 999764, 999775, 999786,
     999797, 999806, 999816, 999825, 999833, 999842, 999849, 999857, 999864, 999870,
     999877, 999883, 999888, 999894, 999899, 999904, 999909, 999913, 999917, 999921,
     999925, 999929, 999932, 999936, 999939, 999942, 999945, 999947, 999950, 999952,
     999955, 999957, 999959, 999961, 999963, 999965, 999966, 999968, 999970, 999971,
     999972, 999974, 999975, 999976, 999977, 999979, 999980, 999981, 999982, 999982,
     999983, 999984, 999985, 999986, 999986, 999987, 999988, 999988, 999989, 999989,
     999990, 999990, 999991, 999991, 999992, 999992, 999992, 999993, 999993, 999994,
     999994, 999994, 999994, 999995, 999995, 999995, 999995, 999996, 999996, 999996,
     999996, 999996, 999997, 999997, 999997, 999997, 999997, 999997, 999998, 999998,
     999998, 999998, 999998, 999998, 999998, 999998, 999998, 999998, 999998, 999999,
     999999, 999999, 999999, 999999, 999999, 999999, 999999, 999999, 999999, 999999,
     999999, 999999, 999999, 999999, 999999, 999999, 999999, 999999, 999999, 999999,
     999999, 1000000, 1000000, 1000000, 1000000, 1000000, 1000000, 1000000, 1000000, 1000000,
     1000000
  >>

\* the curve read one table entry too low
smart_normalize_score_difference_shifted(score_difference) ==
    IF score_difference < -299 THEN 0
    ELSE IF score_difference > 300 THEN Scale
    ELSE SigmoidTable[score_difference + 300]

\* the exponent taken with the wrong sign: the curve falls instead of rising
smart_normalize_score_difference_sign_flipped(score_difference) ==
    IF score_difference < -300 THEN Scale
    ELSE IF score_difference > 300 THEN 0
    ELSE SigmoidTable[301 - score_difference]

\* smart_normalize_score_difference: the float result in millionths; beyond
\* +-300 the float is within 3e-7 of 0 or 1
smart_normalize_score_difference(score_difference) ==
    IF score_difference < -300 THEN 0
    ELSE IF score_difference > 300 THEN Scale
    ELSE SigmoidTable[score_difference + 301]

----------------------------------------------------------------------------
(* Judgment text: a sequence of tokens.  JSON is modelled at token level:  *)
(* an object is LB (key value)* RB, a value is a number or an object;      *)
(* quotes, colons and commas are part of the key and number tokens.        *)

LB == [t |-> "lb", s |-> "{", n |-> 0]
RB == [t |-> "rb", s |-> "}", n |-> 0]
W(str) == [t |-> "word", s |-> str, n |-> 0]
K(str) == [t |-> "key", s |-> str, n |-> 0]
N(v) == [t |-> "num", s |-> "", n |-> v]

NumVal(v) == [kind |-> "num", n |-> v, m |-> <<>>]
ObjVal(map) == [kind |-> "obj", n |-> 0, m |-> map]
ParseFail == [ok |-> FALSE, val |-> NumVal(0), next |-> 0]

\* dict with key set to v (a repeated key keeps the last value)
MapPut(map, key, v) ==
    [k \in (DOMAIN map) \cup {key} |-> IF k = key THEN v ELSE map[k]]

RECURSIVE ParseValue(_, _), ParseMembers(_, _, _)

\* the JSON value starting at toks[i]: [ok, val, next]
ParseValue(toks, i) ==
    IF i > Len(toks) THEN ParseFail
    ELSE IF toks[i].t = "num" THEN [ok |-> TRUE, val |-> NumVal(toks[i].n), next |-> i + 1]
    ELSE IF toks[i].t = "lb" THEN ParseMembers(toks, i + 1, <<>>)
    ELSE ParseFail

\* the members of an object up to and including its closing brace
ParseMembers(toks, i, map) ==
    IF i > Len(toks) THEN ParseFail
    ELSE IF toks[i].t = "rb" THEN [ok |-> TRUE, val |-> ObjVal(map), next |-> i + 1]
    ELSE IF toks[i].t = "key"
         THEN LET r == ParseValue(toks, i + 1)
              IN IF r.ok THEN ParseMembers(toks, r.next, MapPut(map, toks[i].s, r.val))
                 ELSE ParseFail
    ELSE ParseFail

\* json.loads: the whole string must be one value
json_loads(toks) ==
    LET r == ParseValue(toks, 1)
    IN IF r.ok /\ r.next = Len(toks) + 1
       THEN [ok |-> TRUE, val |-> r.val]
       ELSE [ok |-> FALSE, val |-> NumVal(0)]

\* the object cut at the first '}' (find instead of rfind)
extract_json_first_close(text) ==
    LET start_idx == Find(text, LB)
        end_idx == Find(text, RB) + 1
    IN IF start_idx >= 0 /\ end_idx > start_idx
       THEN json_loads(Slice(text, start_idx, end_idx))
       ELSE [ok |-> FALSE, val |-> NumVal(0)]

\* "Extract JSON from response": first '{' to last '}' inclusive
extract_json(text) ==
    LET start_idx == Find(text, LB)
        end_idx == RFind(text, RB) + 1
    IN IF start_idx >= 0 /\ end_idx > start_idx
       THEN json_loads(Slice(text, start_idx, end_idx))
       ELSE [ok |-> FALSE, val |-> NumVal(0)]

\* key in value: raises TypeError unless value is a dict
HasKey(val, key) == val.kind = "obj" /\ key \in DOMAIN val.m

RECURSIVE SumCategories_skips_last(_, _, _)
\* the sum stopping one category early
SumCategories_skips_last(scores, score_categories, i) ==
    IF i >= Len(score_categories) THEN 0
    ELSE (IF score_categories[i] \in DOMAIN scores.m
          THEN scores.m[score_categories[i]].n
          ELSE 0)
         + SumCategories_skips_last(scores, score_categories, i + 1)

RECURSIVE SumCategories(_, _, _)
\* sum(scores.get(category, 0) for category in score_categories[i..])
SumCategories(scores, score_categories, i) ==
    IF i > Len(score_categories) THEN 0
    ELSE (IF score_categories[i] \in DOMAIN scores.m
          THEN scores.m[score_categories[i]].n
          ELSE 0)
         + SumCategories(scores, score_categories, i + 1)

\* the sum raises unless scores is a dict whose present categories are numbers
Summable(scores, score_categories) ==
    /\ scores.kind = "obj"
    /\ \A i \in 1..Len(score_categories) :
          score_categories[i] \in DOMAIN scores.m
              => scores.m[score_categories[i]].kind = "num"

Ok(score, text) == [ok |-> TRUE, score |-> score, text |-> text]
Err(msg) == [ok |-> FALSE, score |-> 0, text |-> msg]

\* the result together with the totals it was computed from (image1_total and
\* image2_total, or total_score alone in standalone mode)
OkTotals(score, text, generated_total, reference_total) ==
    Ok(score, text) @@ [generated_total |-> generated_total,
                        reference_total |-> reference_total]

\* evaluate_with_gemini_bytes from the model's response on: parse, check the
\* score structure, total both images over the rubric, normalise
reference_score(response_text, criteria) ==
    LET parsed == extract_json(response_text)
        evaluation_data == parsed.val
    IN IF ~parsed.ok
       THEN Err(<<W("Gemini evaluation failed: "),
                  W("Failed to parse Gemini evaluation response: ")>>)
       ELSE IF ~HasKey(evaluation_data, "scores")
       THEN Err(<<W("Gemini evaluation failed: "),
                  W("Missing required score data in evaluation response")>>)
       ELSE IF evaluation_data.m["scores"].kind # "obj"
       THEN Err(<<W("Gemini evaluation failed: "), W("TypeError")>>)
       ELSE IF \/ ~HasKey(evaluation_data.m["scores"], "image1")
               \/ ~HasKey(evaluation_data.m["scores"], "image2")
       THEN Err(<<W("Gemini evaluation failed: "),
                  W("Missing required score data in evaluation response")>>)
       ELSE LET image1_scores == evaluation_data.m["scores"].m["image1"]
                image2_scores == evaluation_data.m["scores"].m["image2"]
                score_categories == criteria.categories
            IN IF \/ ~Summable(image1_scores, score_categories)
                  \/ ~Summable(image2_scores, score_categories)
               THEN Err(<<W("Gemini evaluation failed: "), W("TypeError")>>)
               ELSE LET image1_total == SumCategories(image1_scores, score_categories, 1)
                        image2_total == SumCategories(image2_scores, score_categories, 1)
                        score_difference == image1_total - image2_total
                    IN OkTotals(smart_normalize_score_difference(score_difference),
                                response_text, image1_total, image2_total)

\* the standalone score divided by 100 whatever the rubric's size
standalone_score_per_hundred(response_text, criteria) ==
    LET parsed == extract_json(response_text)
        evaluation_data == parsed.val
    IN IF ~parsed.ok \/ ~HasKey(evaluation_data, "scores")
       THEN Err(<<W("Gemini standalone evaluation failed: "), W("no scores")>>)
       ELSE LET scores == evaluation_data.m["scores"]
                score_categories == criteria.categories
            IN IF ~Summable(scores, score_categories)
               THEN Err(<<W("Gemini standalone evaluation failed: "), W("TypeError")>>)
               ELSE LET total_score == SumCategories(scores, score_categories, 1)
                    IN OkTotals((total_score * Scale) \div 100,
                                response_text, total_score, 0)

\* evaluate_standalone_quality from the model's response on
standalone_score(response_text, criteria) ==
    LET parsed == extract_json(response_text)
        evaluation_data == parsed.val
    IN IF ~parsed.ok
       THEN Err(<<W("Gemini standalone evaluation failed: "),
                  W("Failed to parse Gemini standalone evaluation response: ")>>)
       ELSE IF ~HasKey(evaluation_data, "scores")
       THEN Err(<<W("Gemini standalone evaluation failed: "),
                  W("Missing required score data in evaluation response")>>)
       ELSE LET scores == evaluation_data.m["scores"]
                score_categories == criteria.categories
            IN IF ~Summable(scores, score_categories)
               THEN Err(<<W("Gemini standalone evaluation failed: "), W("TypeError")>>)
               ELSE LET total_score == SumCategories(scores, score_categories, 1)
                        max_possible_score == Len(score_categories) * 10
                    IN OkTotals(IF max_possible_score > 0
                                THEN (total_score * Scale) \div max_possible_score
                                ELSE 0,
                                response_text, total_score, 0)

----------------------------------------------------------------------------
(* Model Gateway: generate *)

\* the URLs requests.get accepts (a scheme and a host); any other string,
\* the empty string and None make requests.get raise
Urls == {"https://in/pet.jpg", "https://ref/pet.jpg"}

WellFormedUrl(url) == Len(url) = 1 /\ url[1] \in Urls

\* outcome of an HTTP GET on a well-formed URL
NetOutcomes == {"ok", "status_404", "connection_error"}

TextPart(str) == [text |-> str, inline_data |-> FALSE, data |-> ""]
DataPart(bytes) == [text |-> "", inline_data |-> TRUE, data |-> bytes]

\* responses of model.generate_content to the generation request
GenResponses ==
    { [raises |-> TRUE,  candidates |-> <<>>],
      [raises |-> FALSE, candidates |-> <<>>],
      [raises |-> FALSE, candidates |-> <<[has_content |-> FALSE, parts |-> <<>>]>>],
      [raises |-> FALSE, candidates |-> <<[has_content |-> TRUE, parts |-> <<>>]>>],
      [raises |-> FALSE, candidates |-> <<[has_content |-> TRUE,
                                           parts |-> <<TextPart("Here is your image")>>]>>],
      [raises |-> FALSE, candidates |-> <<[has_content |-> TRUE,
                                           parts |-> <<TextPart("Here is your image"),
                                                       DataPart(""),
                                                       DataPart("PNG1"),
                                                       DataPart("PNG2")>>]>>],
      [raises |-> FALSE, candidates |-> <<[has_content |-> TRUE,
                                           parts |-> <<DataPart("PNG2")>>]>>] }

\* the loop without its break: the data of the last part with inline data
first_image_data_last(parts) ==
    IF \E i \in 1..Len(parts) : parts[i].inline_data /\ parts[i].data # ""
    THEN parts[CHOOSE i \in 1..Len(parts) :
                   /\ parts[i].inline_data /\ parts[i].data # ""
                   /\ \A j \in (i+1)..Len(parts) : ~(parts[j].inline_data /\ parts[j].data # "")].data
    ELSE ""

\* "Find the generated image data": the data of the first part that has
\* non-empty inline data, "" when there is none
first_image_data(parts) ==
    IF \E i \in 1..Len(parts) : parts[i].inline_data /\ parts[i].data # ""
    THEN parts[CHOOSE i \in 1..Len(parts) :
                   /\ parts[i].inline_data /\ parts[i].data # ""
                   /\ \A j \in 1..(i-1) : ~(parts[j].inline_data /\ parts[j].data # "")].data
    ELSE ""

GenOk(bytes) == [ok |-> TRUE, bytes |-> bytes, err |-> <<>>]
GenErr(cause) == [ok |-> FALSE, bytes |-> "",
                  err |-> <<W("Gemini image generation failed: "), W(cause)>>]

\* placeholder content substituted whenever no image could be produced
generate_image_with_gemini_placeholder(e, uploaded_image_url, prompt, net, resp) ==
    GenOk("PLACEHOLDER")

\* generate_image_with_gemini: net is the outcome of downloading the
\* uploaded image, resp the upstream model's response
generate_image_with_gemini(e, uploaded_image_url, prompt, net, resp) ==
    IF EnvGet(e, "GEMINI_API_KEY", "") = ""
    THEN GenErr("GEMINI_API_KEY environment variable not set")
    ELSE IF ~WellFormedUrl(uploaded_image_url) \/ net = "connection_error"
    THEN GenErr("requests.get raised")
    ELSE IF net # "ok"
    THEN GenErr("Failed to download uploaded image: ")
    ELSE IF resp.raises
    THEN GenErr("generate_content raised")
    ELSE IF Len(resp.candidates) = 0
    THEN GenErr("Gemini returned no candidates")
    ELSE IF ~resp.candidates[1].has_content \/ Len(resp.candidates[1].parts) = 0
    THEN GenErr("Gemini returned no content parts")
    ELSE IF first_image_data(resp.candidates[1].parts) = ""
    THEN GenErr("Gemini did not return generated image data")
    ELSE GenOk(first_image_data(resp.candidates[1].parts))

----------------------------------------------------------------------------
(* Artifact sink *)

StorageOutcomes == {"ok", "bucket_error", "upload_error"}

\* the random file names os.urandom can produce
FileNames == {"1001.jpg", "1002.jpg"}

BucketName == "vertex-ai-optimizer-instame-470206"

SessionId == "default-session"

\* the upload error swallowed: the URL is returned although nothing was stored
save_generated_image_to_storage_swallows(b, image_bytes, outcome, file) ==
    IF outcome = "bucket_error"
    THEN [ok |-> FALSE, url |-> EmptyStr, bucket |-> b,
          err |-> <<W("Storage upload failed: "), W("Bucket creation/access failed: ")>>]
    ELSE LET filename == <<"generated-images/", SessionId, "/", file>>
         IN [ok |-> TRUE,
             url |-> <<"https://storage.googleapis.com/", BucketName, "/">> \o filename,
             bucket |-> IF outcome = "ok" THEN MapPut(b, filename, image_bytes) ELSE b,
             err |-> <<>>]

\* save_generated_image_to_storage: [ok, url, bucket, err]
save_generated_image_to_storage(b, image_bytes, outcome, file) ==
    IF outcome = "bucket_error"
    THEN [ok |-> FALSE, url |-> EmptyStr, bucket |-> b,
          err |-> <<W("Storage upload failed: "), W("Bucket creation/access failed: ")>>]
    ELSE IF outcome = "upload_error"
    THEN [ok |-> FALSE, url |-> EmptyStr, bucket |-> b,
          err |-> <<W("Storage upload failed: "), W("upload_from_string raised")>>]
    ELSE LET filename == <<"generated-images/", SessionId, "/", file>>
         IN [ok |-> TRUE,
             url |-> <<"https://storage.googleapis.com/", BucketName, "/">> \o filename,
             bucket |-> MapPut(b, filename, image_bytes),
             err |-> <<>>]

----------------------------------------------------------------------------
(* Record sink *)

InsertOutcomes == {"ok", "insert_error"}

Digits == <<"0", "1", "2", "3", "4", "5", "6", "7", "8", "9">>

\* str.isdigit
IsDigit(s) ==
    /\ Len(s) > 0
    /\ \A i \in 1..Len(s) : \E d \in 1..Len(Digits) : Digits[d] = s[i]

RECURSIVE ParseInt(_)
\* int(s) for a string of decimal digits
ParseInt(s) ==
    IF Len(s) = 0 THEN 0
    ELSE 10 * ParseInt(SubSeq(s, 1, Len(s) - 1))
         + (CHOOSE d \in 1..Len(Digits) : Digits[d] = s[Len(s)]) - 1

NullInt == [null |-> TRUE, v |-> 0]
SomeInt(v) == [null |-> FALSE, v |-> v]

\* the id read after the first marker instead of the last (split(...)[1])
training_sample_id_of_first_marker(uid) ==
    IF Find(uid, "_sample_") >= 0
    THEN LET rest == Slice(uid, Find(uid, "_sample_") + 1, Len(uid))
             sample_id_str == IF Find(rest, "_sample_") >= 0
                              THEN Slice(rest, 0, Find(rest, "_sample_"))
                              ELSE rest
         IN IF IsDigit(sample_id_str) THEN SomeInt(ParseInt(sample_id_str)) ELSE NullInt
    ELSE NullInt

\* "Extract the actual training sample ID from the unique_id"
training_sample_id_of(uid) ==
    IF Find(uid, "_sample_") >= 0
    THEN LET sample_id_str == Slice(uid, RFind(uid, "_sample_") + 1, Len(uid))
         IN IF IsDigit(sample_id_str) THEN SomeInt(ParseInt(sample_id_str)) ELSE NullInt
    ELSE NullInt

\* the record written with the default id instead of the caller's
store_generation_record_default_id(e, recs, prompt, gen_url, uid, in_url, ref_url, outcome) ==
    IF EnvGet(e, "SUPABASE_URL", "") = "" \/ EnvGet(e, "SUPABASE_SERVICE_ROLE_KEY", "") = ""
    THEN [ok |-> FALSE, records |-> recs,
          err |-> <<W("CRITICAL ERROR: Missing Supabase credentials for image storage.")>>]
    ELSE IF outcome = "insert_error"
    THEN [ok |-> FALSE, records |-> recs, err |-> <<W("insert raised")>>]
    ELSE [ok |-> TRUE,
          records |-> Append(recs,
              [training_sample_id |-> training_sample_id_of(uid),
               prompt_used |-> prompt,
               generated_image_url |-> gen_url,
               uploaded_image_url |-> in_url,
               reference_image_url |-> ref_url,
               generated_by |-> "vertex-ai-optimizer-single-evaluation",
               evaluation_unique_id |-> <<"unknown">>,
               session_id |-> SessionId]),
          err |-> <<>>]

\* the lenient policy: a failed write is logged and the caller goes on
store_generation_record_warns(e, recs, prompt, gen_url, uid, in_url, ref_url, outcome) ==
    IF \/ EnvGet(e, "SUPABASE_URL", "") = ""
       \/ EnvGet(e, "SUPABASE_SERVICE_ROLE_KEY", "") = ""
       \/ outcome = "insert_error"
    THEN [ok |-> TRUE, records |-> recs, err |-> <<>>]
    ELSE [ok |-> TRUE,
          records |-> Append(recs,
              [training_sample_id |-> training_sample_id_of(uid),
               prompt_used |-> prompt,
               generated_image_url |-> gen_url,
               uploaded_image_url |-> in_url,
               reference_image_url |-> ref_url,
               generated_by |-> "vertex-ai-optimizer-single-evaluation",
               evaluation_unique_id |-> uid,
               session_id |-> SessionId]),
          err |-> <<>>]

\* the insert built but never executed: the call succeeds and no row is written
store_generation_record_not_executed(e, recs, prompt, gen_url, uid, in_url, ref_url, outcome) ==
    IF EnvGet(e, "SUPABASE_URL", "") = "" \/ EnvGet(e, "SUPABASE_SERVICE_ROLE_KEY", "") = ""
    THEN [ok |-> FALSE, records |-> recs,
          err |-> <<W("CRITICAL ERROR: Missing Supabase credentials for image storage.")>>]
    ELSE [ok |-> TRUE, records |-> recs, err |-> <<>>]

\* store_generation_record: [ok, records, err]
store_generation_record(e, recs, prompt, gen_url, uid, in_url, ref_url, outcome) ==
    IF EnvGet(e, "SUPABASE_URL", "") = "" \/ EnvGet(e, "SUPABASE_SERVICE_ROLE_KEY", "") = ""
    THEN [ok |-> FALSE, records |-> recs,
          err |-> <<W("CRITICAL ERROR: Missing Supabase credentials for image storage.")>>]
    ELSE IF outcome = "insert_error"
    THEN [ok |-> FALSE, records |-> recs, err |-> <<W("insert raised")>>]
    ELSE [ok |-> TRUE,
          records |-> Append(recs,
              [training_sample_id |-> training_sample_id_of(uid),
               prompt_used |-> prompt,
               generated_image_url |-> gen_url,
               uploaded_image_url |-> in_url,
               reference_image_url |-> ref_url,
               generated_by |-> "vertex-ai-optimizer-single-evaluation",
               evaluation_unique_id |-> uid,
               session_id |-> SessionId]),
          err |-> <<>>]

----------------------------------------------------------------------------
(* Model Gateway: judge.  The texts the judging model may answer with. *)

RECURSIVE Members(_, _, _)
\* "category": v for every category from position i on
Members(cats, v, i) ==
    IF i > Len(cats) THEN <<>>
    ELSE <<K(cats[i]), N(v)>> \o Members(cats, v, i + 1)

ScoresObj(cats, v) == <<LB>> \o Members(cats, v, 1) \o <<RB>>

\* the JSON format the comparison prompts ask for
RefText(cats, a, b) ==
    <<LB, K("image1_analysis"), LB, RB, K("scores"), LB, K("image1")>>
    \o ScoresObj(cats, a) \o <<K("image2")>> \o ScoresObj(cats, b) \o <<RB, RB>>

\* the JSON format the standalone prompt asks for
StandaloneText(cats, a) ==
    <<LB, K("analysis"), LB, RB, K("scores")>> \o ScoresObj(cats, a) \o <<RB>>

RECURSIVE PairMembers(_, _)
\* "category": score for every <<category, score>> pair from position i on
PairMembers(pairs, i) ==
    IF i > Len(pairs) THEN <<>>
    ELSE <<K(pairs[i][1]), N(pairs[i][2])>> \o PairMembers(pairs, i + 1)

\* a comparison answer whose two images carry the given <<category, score>> pairs
PairsRefText(image1_pairs, image2_pairs) ==
    <<LB, K("scores"), LB, K("image1"), LB>> \o PairMembers(image1_pairs, 1)
    \o <<RB, K("image2"), LB>> \o PairMembers(image2_pairs, 1) \o <<RB, RB, RB>>

\* an answer that scores one rubric category, one category at 0 and one
\* category no rubric has for the generated image
MixedPairs1 == << <<"pet_likeness", 8>>, <<"visual_appeal", 0>>, <<"sharpness", 9>> >>

MixedPairs2 == << <<"pet_likeness", 8>> >>

JudgeTexts ==
    { RefText(ComprehensiveCategories, 7, 5),
      PairsRefText(MixedPairs1, MixedPairs2),
      RefText(ComprehensiveCategories, 15, -3),
      RefText(ArtisticCategories, 2, 9),
      <<W("Here is my evaluation:")>> \o RefText(SimplifiedCategories, 10, 10)
          \o <<W("Let me know if you need more.")>>,
      RefText(<<"pet_likeness">>, 8, 0),
      <<LB, K("scores"), LB, K("image1")>> \o ScoresObj(SimplifiedCategories, 6)
          \o <<RB, RB>>,
      StandaloneText(ComprehensiveCategories, 15),
      StandaloneText(ComprehensiveCategories, 0),
      <<W("Sure!")>> \o StandaloneText(SimplifiedCategories, 10) \o <<W("Done.")>>,
      StandaloneText(ArtisticCategories, -3),
      StandaloneText(<<"visual_appeal">>, 4),
      <<W("I cannot rate these images.")>>,
      <<RB, W("then"), LB>>,
      <<LB, W("pet_likeness is great"), RB>>,
      <<LB, RB, W("and also"), LB, RB>>,
      <<LB, K("scores"), LB, RB>>,
      <<LB, K("analysis"), LB, RB, RB>>,
      <<LB, K("scores"), N(5), RB>>,
      <<LB, K("scores"), LB, K("image1"), N(7), K("image2"), N(5), RB, RB>>,
      <<LB, K("scores"), LB, K("pet_likeness"), LB, RB, RB, RB>> }

JudgeOk == [ok |-> TRUE, err |-> <<>>]
JudgeErr(prefix, cause) == [ok |-> FALSE, err |-> <<W(prefix), W(cause)>>]

\* evaluate_with_gemini_bytes up to the call of the judging model
reference_request(e, ref_url, net) ==
    IF EnvGet(e, "GEMINI_API_KEY", "") = ""
    THEN JudgeErr("Gemini evaluation failed: ", "GEMINI_API_KEY environment variable not set")
    ELSE IF ~WellFormedUrl(ref_url) \/ net = "connection_error"
    THEN JudgeErr("Gemini evaluation failed: ", "requests.get raised")
    ELSE JudgeOk

\* evaluate_standalone_quality up to the call of the judging model
standalone_request(e, in_url, net) ==
    IF EnvGet(e, "GEMINI_API_KEY", "") = ""
    THEN JudgeErr("Gemini standalone evaluation failed: ",
                  "GEMINI_API_KEY environment variable not set")
    ELSE IF ~WellFormedUrl(in_url) \/ net = "connection_error"
    THEN JudgeErr("Gemini standalone evaluation failed: ", "requests.get raised")
    ELSE JudgeOk

----------------------------------------------------------------------------
(* The request *)

Absent == <<"<absent>">>

\* <<prompt, unique_id>> of a request
PromptAndIdChoices ==
    { <<Absent, Absent>>,
      << <<"soft watercolor pet portrait">>, <<"1700000000000_ab12", "_sample_", "4", "2">> >>,
      << <<"soft watercolor pet portrait">>, <<"eval-7">> >> }

InputChoices ==
    { Absent, EmptyStr, <<"https://in/pet.jpg">>,
      <<"https://in/pet.jpg", ",", "a small dog">>,
      <<",", "a small dog">>, <<"pet.jpg", ",", "a small dog", ",", "brown">> }

TargetChoices ==
    { Absent, EmptyStr, <<"{}">>, <<"https://ref/pet.jpg">>,
      <<"https://ref/pet.jpg", ",", "ideal portrait">>,
      <<"quality_specification:", "a dreamy watercolor">>,
      <<"quality_specification:", "quality_specification:", "a dreamy watercolor">>,
      <<"a dreamy watercolor">> }

\* the JSON body with the fields that are present
MkData(p, i, t, u) ==
    LET all == [prompt |-> p, input |-> i, target |-> t, unique_id |-> u]
    IN [k \in {f \in DOMAIN all : all[f] # Absent} |-> all[k]]

ModeSettings == {Unset, "reference_comparison", "standalone_quality", "legacy_mode"}

CriteriaSettings == {Unset, "comprehensive", "simplified", "artistic", "detailed"}

Environments ==
    { e \in [EVALUATION_MODE : ModeSettings,
             EVALUATION_CRITERIA : CriteriaSettings,
             GEMINI_API_KEY : {Unset, "AIza-key"},
             SUPABASE_URL : {Unset, "https://project.supabase.co"},
             SUPABASE_SERVICE_ROLE_KEY : {Unset, "service-role-key"}] :
          ~(e.SUPABASE_URL = Unset /\ e.SUPABASE_SERVICE_ROLE_KEY = Unset) }

NoJudgeRequest ==
    [mode_type |-> "", criteria_type |-> "", prompt |-> "",
     quality_specification |-> None, images |-> <<>>]

NoCalls == [generate |-> 0, store |-> 0, record |-> 0, judge |-> 0]

NoOutcome == [score |-> 0, explanation |-> <<>>]

NoTotals == [generated |-> 0, reference |-> 0]

NoResult ==
    [image_similarity_score |-> 0, explanation |-> <<>>,
     details |-> [samples_evaluated |-> 0, individual_scores |-> <<>>,
                  prompt_evaluated |-> EmptyStr, input_image_url |-> EmptyStr,
                  unique_id |-> EmptyStr]]

\* no differences have been normalized yet
NoProbe == [scored |-> FALSE, d1 |-> 0, d2 |-> 0, s1 |-> 0, s2 |-> 0]

\* no call has been made yet
NotCalled == [called |-> FALSE]

Init ==
    /\ probe = NoProbe
    /\ generation = NotCalled
    /\ extraction = NotCalled
    /\ insertion = NotCalled
    /\ invocations = <<>>
    /\ bucket_exists = TRUE
    /\ batch_pc = "idle"
    /\ batch_error = ""
    /\ samples = <<>>
    /\ next_sample = 1
    /\ in_flight = {}
    /\ peak_in_flight = 0
    /\ evaluations = <<>>
    /\ generation_failed = {}
    /\ outcomes = <<>>
    /\ env \in Environments
    /\ pc = "idle"
    /\ data = <<>>
    /\ optimized_prompt = EmptyStr
    /\ input_image_url = EmptyStr
    /\ unique_id = EmptyStr
    /\ mode_type = ""
    /\ reference_image_url = None
    /\ quality_specification = None
    /\ generated_image_bytes = ""
    /\ generated_image_url = EmptyStr
    /\ judge_request = NoJudgeRequest
    /\ bucket = <<>>
    /\ records = <<>>
    /\ calls = NoCalls
    /\ evaluation_text = <<>>
    /\ total_scores = NoTotals
    /\ failures = {}
    /\ sample_outcome = NoOutcome
    /\ result = NoResult
    /\ raised = <<>>

----------------------------------------------------------------------------
(* evaluate_image_prompt and evaluate_single_sample *)

\* evaluate_single_sample returns (score, explanation); evaluate_image_prompt
\* clamps the score and returns the response
Return(score, explanation) ==
    /\ sample_outcome' = [score |-> score, explanation |-> explanation]
    /\ result' = [image_similarity_score |-> Clamp01(score),
                  explanation |-> explanation,
                  details |-> [samples_evaluated |-> 1,
                               individual_scores |-> <<Clamp01(score)>>,
                               prompt_evaluated |-> optimized_prompt,
                               input_image_url |-> input_image_url,
                               unique_id |-> unique_id]]
    /\ pc' = "returned"
    /\ UNCHANGED raised

\* an exception leaves evaluate_image_prompt ("raise e")
Raise(message) ==
    /\ raised' = message
    /\ pc' = "raised"
    /\ UNCHANGED <<sample_outcome, result>>

\* the step succeeded: go on with the next step
Continue(next_pc) ==
    /\ pc' = next_pc
    /\ UNCHANGED <<sample_outcome, result, raised>>

\* the input check left out
input_missing_unchecked(url) == FALSE

\* "if not input_image_url"
input_missing(url) == url = EmptyStr

\* the handler logging the failure without returning
on_generation_failure_continues(err) == Continue("store")

\* the handler calling the generation again, up to two more times
on_generation_failure_retries(err) ==
    IF calls.generate < 2
    THEN Continue("generate")
    ELSE Return(0, <<W("Image generation failed: ")>> \o err)

\* except around generate_image_with_gemini
on_generation_failure(err) ==
    Return(0, <<W("Image generation failed: ")>> \o err)

\* the outer handler re-raising ("raise e") as the other handlers of the file do
on_sample_failure_escapes(err) == Raise(<<"evaluate_single_sample raised">>)

\* the outer handler logging the failure and going on to the judge step
on_sample_failure_proceeds(err) == Continue("judge")

\* the outer except of evaluate_single_sample
on_sample_failure(err) ==
    Return(0, <<W("Sample evaluation failed: ")>> \o err)

\* the evaluation handler re-raising instead of returning 0.0
on_evaluation_failure_reraises(err) == Raise(<<"evaluation raised">>)

\* the evaluation handler trying the judge step a second time
on_evaluation_failure_retries(err) ==
    IF calls.judge < 2
    THEN Continue("judge")
    ELSE Return(0, <<W("Evaluation failed: ")>> \o err)

\* except around the evaluation of the generated image
on_evaluation_failure(err) ==
    Return(0, <<W("Evaluation failed: ")>> \o err)

\* the target kept whole, prefix included
quality_specification_of_keeps_prefix(target_data) == target_data

\* the target of standalone mode: target_data.replace("quality_specification:",
\* "", 1) when it starts with that prefix, target_data otherwise
quality_specification_of(target_data) ==
    IF Len(target_data) > 0 /\ target_data[1] = "quality_specification:"
    THEN Tail(target_data)
    ELSE target_data

\* evaluate_image_prompt up to the call of evaluate_single_sample: read the
\* fields, split the input, resolve the mode, parse the target, check the input
ReceiveRequest ==
    /\ pc = "idle"
    /\ UNCHANGED <<scoring_vars, batch_vars, unit_vars, concurrent_vars>>
    /\ \E pu \in PromptAndIdChoices, i \in InputChoices, t \in TargetChoices :
         LET d == MkData(pu[1], i, t, pu[2])
             input_data == DataGet(d, "input", EmptyStr)
             target_data == DataGet(d, "target", EmptyStr)
             in_url == IF Find(input_data, ",") >= 0
                       THEN SplitFirstComma(input_data)[1]
                       ELSE input_data
             mt == get_evaluation_mode(env)[1]
         IN /\ data' = d
            /\ optimized_prompt' = DataGet(d, "prompt", EmptyStr)
            /\ unique_id' = DataGet(d, "unique_id", <<"unknown">>)
            /\ input_image_url' = in_url
            /\ mode_type' = mt
            /\ IF mt = "standalone_quality"
               THEN /\ quality_specification' = quality_specification_of(target_data)
                    /\ reference_image_url' = None
               ELSE /\ reference_image_url' =
                          IF Find(target_data, ",") >= 0
                          THEN SplitFirstComma(target_data)[1]
                          ELSE target_data
                    /\ quality_specification' = None
            /\ IF input_missing(in_url)
               THEN Raise(<<"No input image URL provided">>)
               ELSE Continue("generate")
    /\ UNCHANGED <<env, generated_image_bytes, generated_image_url, judge_request,
                   bucket, records, calls, evaluation_text, total_scores, failures>>

\* evaluate_single_sample: the generate step
Generate ==
    /\ pc = "generate"
    /\ UNCHANGED <<scoring_vars, batch_vars, unit_vars, concurrent_vars>>
    /\ calls' = [calls EXCEPT !.generate = @ + 1]
    /\ \E net \in NetOutcomes, resp \in GenResponses :
         LET full_prompt == <<"Generate an image: ">> \o optimized_prompt
             g == generate_image_with_gemini(env, input_image_url, full_prompt, net, resp)
         IN /\ failures' = IF g.ok /\ g.bytes # "" THEN failures
                           ELSE failures \cup {"generate"}
            /\ IF ~g.ok
               THEN /\ on_generation_failure(g.err)
                    /\ UNCHANGED generated_image_bytes
               ELSE IF g.bytes = ""
               THEN /\ Return(0, <<W("Image generation failed - no image was produced")>>)
                    /\ UNCHANGED generated_image_bytes
               ELSE /\ generated_image_bytes' = g.bytes
                    /\ Continue("store")
    /\ UNCHANGED <<env, data, optimized_prompt, input_image_url, unique_id, mode_type,
                   reference_image_url, quality_specification, generated_image_url,
                   judge_request, bucket, records, evaluation_text, total_scores>>

\* evaluate_single_sample: the artifact-store step
StoreArtifact ==
    /\ pc = "store"
    /\ UNCHANGED <<scoring_vars, batch_vars, unit_vars, concurrent_vars>>
    /\ calls' = [calls EXCEPT !.store = @ + 1]
    /\ \E outcome \in StorageOutcomes, file \in FileNames :
         LET s == save_generated_image_to_storage(bucket, generated_image_bytes, outcome, file)
         IN /\ failures' = IF outcome = "ok" THEN failures ELSE failures \cup {"store"}
            /\ IF ~s.ok
               THEN /\ on_sample_failure(s.err)
                    /\ UNCHANGED <<generated_image_url, bucket>>
               ELSE IF s.url = EmptyStr
               THEN /\ Return(0, <<W("Image storage failed - could not save generated image")>>)
                    /\ UNCHANGED <<generated_image_url, bucket>>
               ELSE /\ generated_image_url' = s.url
                    /\ bucket' = s.bucket
                    /\ Continue("record")
    /\ UNCHANGED <<env, data, optimized_prompt, input_image_url, unique_id, mode_type,
                   reference_image_url, quality_specification, generated_image_bytes,
                   judge_request, records, evaluation_text, total_scores>>

\* evaluate_single_sample: the record-append step
StoreRecord ==
    /\ pc = "record"
    /\ UNCHANGED <<scoring_vars, batch_vars, unit_vars, concurrent_vars>>
    /\ calls' = [calls EXCEPT !.record = @ + 1]
    /\ \E outcome \in InsertOutcomes :
         LET r == store_generation_record(env, records, optimized_prompt, generated_image_url,
                                          unique_id, input_image_url, reference_image_url,
                                          outcome)
         IN /\ failures' = IF r.ok THEN failures ELSE failures \cup {"record"}
            /\ IF ~r.ok
               THEN /\ on_sample_failure(r.err)
                    /\ UNCHANGED records
               ELSE /\ records' = r.records
                    /\ Continue("judge")
    /\ UNCHANGED <<env, data, optimized_prompt, input_image_url, unique_id, mode_type,
                   reference_image_url, quality_specification, generated_image_bytes,
                   generated_image_url, judge_request, bucket, evaluation_text, total_scores>>

\* evaluate_single_sample: the judge step up to the request to the judging
\* model (resolve the mode again, check the key, download, build the prompt)
JudgeRequest ==
    /\ pc = "judge"
    /\ UNCHANGED <<scoring_vars, batch_vars, unit_vars, concurrent_vars>>
    /\ calls' = [calls EXCEPT !.judge = @ + 1]
    /\ \E net \in NetOutcomes :
         LET mt == get_evaluation_mode(env)[1]
             criteria_type == criteria_type_of(env)
             rq == IF mt = "standalone_quality"
                   THEN standalone_request(env, input_image_url, net)
                   ELSE reference_request(env, reference_image_url, net)
         IN /\ failures' = IF rq.ok THEN failures ELSE failures \cup {"judge"}
            /\ IF ~rq.ok
               THEN /\ on_evaluation_failure(rq.err)
                    /\ UNCHANGED judge_request
               ELSE /\ judge_request' =
                          IF mt = "standalone_quality"
                          THEN [mode_type |-> mt, criteria_type |-> criteria_type,
                                prompt |-> "standalone_prompt",
                                quality_specification |->
                                    IF quality_specification \in {None, EmptyStr}
                                    THEN None ELSE quality_specification,
                                images |-> <<input_image_url, <<generated_image_bytes>> >>]
                          ELSE [mode_type |-> mt, criteria_type |-> criteria_type,
                                prompt |-> EVALUATION_CRITERIA[criteria_type].prompt,
                                quality_specification |-> None,
                                images |-> << <<generated_image_bytes>>, reference_image_url>>]
                    /\ Continue("judging")
    /\ UNCHANGED <<env, data, optimized_prompt, input_image_url, unique_id, mode_type,
                   reference_image_url, quality_specification, generated_image_bytes,
                   generated_image_url, bucket, records, evaluation_text, total_scores>>

\* evaluate_single_sample: the judging model answers (or the call raises);
\* parse the answer and score it
JudgeResponse ==
    /\ pc = "judging"
    /\ UNCHANGED <<scoring_vars, batch_vars, unit_vars, concurrent_vars>>
    /\ \E raises \in BOOLEAN, response_text \in JudgeTexts :
         LET prefix == IF judge_request.mode_type = "standalone_quality"
                       THEN "Gemini standalone evaluation failed: "
                       ELSE "Gemini evaluation failed: "
             j == IF raises
                  THEN Err(<<W(prefix), W("generate_content raised")>>)
                  ELSE IF judge_request.mode_type = "standalone_quality"
                  THEN standalone_score(response_text,
                                        EVALUATION_CRITERIA[judge_request.criteria_type])
                  ELSE reference_score(response_text, get_evaluation_criteria(env))
         IN /\ evaluation_text' = IF raises THEN <<>> ELSE response_text
            /\ total_scores' = IF j.ok
                               THEN [generated |-> j.generated_total,
                                     reference |-> j.reference_total]
                               ELSE total_scores
            /\ failures' = IF j.ok THEN failures ELSE failures \cup {"judge"}
            /\ IF j.ok
               THEN Return(j.score, j.text)
               ELSE on_evaluation_failure(j.text)
    /\ UNCHANGED <<env, data, optimized_prompt, input_image_url, unique_id, mode_type,
                   reference_image_url, quality_specification, generated_image_bytes,
                   generated_image_url, judge_request, bucket, records, calls>>

Next ==
    \/ ReceiveRequest
    \/ Generate
    \/ StoreArtifact
    \/ StoreRecord
    \/ JudgeRequest
    \/ JudgeResponse

Spec == Init /\ [][Next]_vars

\* every external call returns or fails: a step that is possible is taken
LiveSpec == Spec /\ WF_vars(Next)

----------------------------------------------------------------------------
(* A request during which the ambient configuration is changed *)

\* the positions between the entry of evaluate_image_prompt and its exit
InFlight == {"generate", "store", "record", "judge", "judging"}

\* the settings the configuration is changed to
ReconfiguredModes == {"reference_comparison", "standalone_quality"}

ReconfiguredCriteria == {"comprehensive", "artistic"}

\* every credential configured; the mode and the rubric as deployed
InitReconfig ==
    /\ Init
    /\ env.GEMINI_API_KEY # Unset
    /\ env.SUPABASE_URL # Unset
    /\ env.SUPABASE_SERVICE_ROLE_KEY # Unset
    /\ env.EVALUATION_MODE \in {Unset, "standalone_quality"}
    /\ env.EVALUATION_CRITERIA \in {Unset, "simplified"}

\* os.environ["EVALUATION_MODE"] or os.environ["EVALUATION_CRITERIA"] is
\* assigned while the request is being handled
ChangeConfiguration ==
    /\ pc \in InFlight
    /\ \E m \in ReconfiguredModes, c \in ReconfiguredCriteria :
         /\ env' = [env EXCEPT !.EVALUATION_MODE = m, !.EVALUATION_CRITERIA = c]
         /\ env' # env
    /\ UNCHANGED <<pc, data, optimized_prompt, input_image_url, unique_id,
                   mode_type, reference_image_url, quality_specification,
                   generated_image_bytes, generated_image_url, judge_request,
                   bucket, records, calls, evaluation_text, total_scores, failures,
                   sample_outcome, result, raised>>
    /\ UNCHANGED <<scoring_vars, batch_vars, unit_vars, concurrent_vars>>

NextReconfig ==
    \/ ReceiveRequest
    \/ Generate
    \/ StoreArtifact
    \/ StoreRecord
    \/ JudgeRequest
    \/ JudgeResponse
    \/ ChangeConfiguration

SpecReconfig == InitReconfig /\ [][NextReconfig]_vars

----------------------------------------------------------------------------
(* smart_normalize_score_difference applied to pairs of score differences *)

\* the environment the test scripts set before importing main
DeployedEnvironment ==
    [EVALUATION_MODE |-> Unset,
     EVALUATION_CRITERIA |-> Unset,
     GEMINI_API_KEY |-> "AIza-key",
     SUPABASE_URL |-> "https://project.supabase.co",
     SUPABASE_SERVICE_ROLE_KEY |-> "service-role-key"]

\* the docstring's "Score difference range: -100 to +100"
DocumentedRange == 100

\* the probed differences reach this far on both sides of zero
MaxProbeDiff == 120

\* differences at which 1.0 / (1.0 + math.exp(-x)) is exactly 1.0 in binary64:
\* math.exp(-735 / 20.0) is below half an ulp of 1.0
SaturatedDiffs == {735, 736}

ProbeDiffs == (-MaxProbeDiff .. MaxProbeDiff) \cup SaturatedDiffs

InitScoring == Init /\ env = DeployedEnvironment

\* normalized_score = smart_normalize_score_difference(score_difference), for
\* two differences d1 < d2
NormalizeDifferences ==
    /\ ~probe.scored
    /\ \E d1 \in ProbeDiffs, d2 \in ProbeDiffs :
         /\ d1 < d2
         /\ probe' = [scored |-> TRUE, d1 |-> d1, d2 |-> d2,
                      s1 |-> smart_normalize_score_difference(d1),
                      s2 |-> smart_normalize_score_difference(d2)]
    /\ UNCHANGED <<request_vars, batch_vars, unit_vars, concurrent_vars>>

NextScoring == NormalizeDifferences

SpecScoring == InitScoring /\ [][NextScoring]_vars

----------------------------------------------------------------------------
(* Fan-out Scheduler: the Single-Sample Evaluator run over a batch of       *)
(* samples by a fixed-size worker pool                                      *)

\* the largest batch the sample store returns
MaxSamples == 5

\* capacity of the worker pool (the default is 20 concurrent evaluations)
PoolCapacity == 2

\* the rows of the sample store for a dataset with n samples
SampleRows(n) ==
    [i \in 1..n |-> [id |-> 40 + i,
                     uploaded_image_url |-> <<"https://in/pet.jpg">>,
                     openai_image_url |-> <<"https://ref/pet.jpg">>]]

\* the candidate prompt of the batch
BatchPrompt == <<"soft watercolor pet portrait">>

\* outcomes of downloading a sample's uploaded image
BatchNetOutcomes == {"ok", "status_404"}

\* the upstream model's answers to a sample's generation request
BatchGenResponses ==
    { [raises |-> FALSE, candidates |-> <<[has_content |-> TRUE,
                                           parts |-> <<TextPart("Here is your image")>>]>>],
      [raises |-> FALSE, candidates |-> <<[has_content |-> TRUE,
                                           parts |-> <<DataPart("PNG2")>>]>>] }

\* the judging model's answers for a generated image: difference +37 and
\* difference -20 with the comprehensive rubric
BatchJudgeTexts ==
    { PairsRefText(<< <<"pet_likeness", 10>>, <<"pose_expression", 10>>,
                      <<"color_harmony", 9>>, <<"visual_appeal", 8>> >>,
                   << <<"pet_likeness", 0>> >>),
      RefText(ComprehensiveCategories, 4, 6) }

\* the download failed or the answer carries no image data
upstream_gave_no_image(net, resp) ==
    \/ net # "ok"
    \/ resp.raises
    \/ Len(resp.candidates) = 0
    \/ ~resp.candidates[1].has_content
    \/ ~\E i \in 1..Len(resp.candidates[1].parts) :
            /\ resp.candidates[1].parts[i].inline_data
            /\ resp.candidates[1].parts[i].data # ""

\* the empty sample set left unnoticed
no_samples_unchecked(rows) == FALSE

\* "if not samples": the sample store returned no rows
no_samples(rows) == rows = <<>>

\* a worker taken whatever the number of evaluations in flight
pool_has_room_unbounded(running) == TRUE

\* the pool has an idle worker
pool_has_room(running) == Cardinality(running) < PoolCapacity

InitBatch == Init /\ env = DeployedEnvironment

\* the batch starts: fetch the dataset's samples, abort when there are none
StartBatch ==
    /\ batch_pc = "idle"
    /\ \E n \in 0..MaxSamples :
         LET rows == SampleRows(n)
         IN /\ samples' = rows
            /\ evaluations' = [i \in 1..n |-> 0]
            /\ IF no_samples(rows)
               THEN /\ batch_pc' = "aborted"
                    /\ batch_error' = "No samples found"
               ELSE /\ batch_pc' = "running"
                    /\ UNCHANGED batch_error
    /\ UNCHANGED <<next_sample, in_flight, peak_in_flight, generation_failed, outcomes>>
    /\ UNCHANGED <<request_vars, scoring_vars, unit_vars, concurrent_vars>>

\* a worker of the pool takes the next sample of the batch
SubmitSample ==
    /\ batch_pc = "running"
    /\ next_sample <= Len(samples)
    /\ pool_has_room(in_flight)
    /\ in_flight' = in_flight \cup {next_sample}
    /\ peak_in_flight' = IF Cardinality(in_flight') > peak_in_flight
                         THEN Cardinality(in_flight')
                         ELSE peak_in_flight
    /\ next_sample' = next_sample + 1
    /\ UNCHANGED <<batch_pc, batch_error, samples, evaluations, generation_failed, outcomes>>
    /\ UNCHANGED <<request_vars, scoring_vars, unit_vars, concurrent_vars>>

\* a worker finishes the evaluation of its sample: generation, then the
\* judgment of the generated image; the score is collected under the sample's id
CompleteSample ==
    /\ batch_pc = "running"
    /\ \E i \in in_flight, net \in BatchNetOutcomes, resp \in BatchGenResponses,
          text \in BatchJudgeTexts :
         LET sample == samples[i]
             full_prompt == <<"Generate an image: ">> \o BatchPrompt
             g == generate_image_with_gemini(env, sample.uploaded_image_url,
                                             full_prompt, net, resp)
             j == reference_score(text, get_evaluation_criteria(env))
             score == IF ~g.ok \/ g.bytes = "" THEN 0
                      ELSE IF ~j.ok THEN 0
                      ELSE j.score
         IN /\ generation_failed' = IF upstream_gave_no_image(net, resp)
                                    THEN generation_failed \cup {i}
                                    ELSE generation_failed
            /\ evaluations' = [evaluations EXCEPT ![i] = @ + 1]
            /\ outcomes' = [id \in DOMAIN outcomes \cup {sample.id} |->
                               IF id = sample.id THEN score ELSE outcomes[id]]
            /\ in_flight' = in_flight \ {i}
    /\ UNCHANGED <<batch_pc, batch_error, samples, next_sample, peak_in_flight>>
    /\ UNCHANGED <<request_vars, scoring_vars, unit_vars, concurrent_vars>>

\* every sample was collected: the batch completes
CollectResults ==
    /\ batch_pc = "running"
    /\ next_sample > Len(samples)
    /\ in_flight = {}
    /\ batch_pc' = "done"
    /\ UNCHANGED <<batch_error, samples, next_sample, in_flight, peak_in_flight,
                   evaluations, generation_failed, outcomes>>
    /\ UNCHANGED <<request_vars, scoring_vars, unit_vars, concurrent_vars>>

NextBatch ==
    \/ StartBatch
    \/ SubmitSample
    \/ CompleteSample
    \/ CollectResults

SpecBatch == InitBatch /\ [][NextBatch]_vars

\* the pool's workers keep running: a step that stays possible is taken
LiveBatch == SpecBatch /\ WF_vars(NextBatch)

----------------------------------------------------------------------------
(* Several evaluations running at the same time against the same sinks *)

\* the unique_ids of the concurrent evaluations, pairwise distinct
ConcurrentIds ==
    << <<"1700000000000_ab12", "_sample_", "4", "1">>,
       <<"1700000000000_cd34", "_sample_", "4", "2">> >>

\* the judging model's answers to a concurrent evaluation
ConcurrentJudgeTexts ==
    BatchJudgeTexts \cup { <<W("I cannot rate these images.")>> }

\* what the external calls of an evaluation delivered, before any was made
NothingDrawn == [net |-> "", image |-> FALSE, upload |-> "", insert |-> "", text |-> <<>>]

\* evaluate_single_sample entered with its arguments
Entered(uid) ==
    [pc |-> "generate", unique_id |-> uid,
     input_image_url |-> <<"https://in/pet.jpg">>,
     reference_image_url |-> <<"https://ref/pet.jpg">>,
     generated_image_bytes |-> "", bucket_seen |-> FALSE,
     generated_image_url |-> EmptyStr,
     score |-> 0, explanation |-> <<>>, drawn |-> NothingDrawn]

\* the evaluations have been entered; the bucket exists or not
InitConcurrent ==
    /\ probe = NoProbe
    /\ generation = NotCalled
    /\ extraction = NotCalled
    /\ insertion = NotCalled
    /\ batch_pc = "idle"
    /\ batch_error = ""
    /\ samples = <<>>
    /\ next_sample = 1
    /\ in_flight = {}
    /\ peak_in_flight = 0
    /\ evaluations = <<>>
    /\ generation_failed = {}
    /\ outcomes = <<>>
    /\ env = DeployedEnvironment
    /\ pc = "idle"
    /\ data = <<>>
    /\ optimized_prompt = BatchPrompt
    /\ input_image_url = EmptyStr
    /\ unique_id = EmptyStr
    /\ mode_type = ""
    /\ reference_image_url = None
    /\ quality_specification = None
    /\ generated_image_bytes = ""
    /\ generated_image_url = EmptyStr
    /\ judge_request = NoJudgeRequest
    /\ bucket = <<>>
    /\ records = <<>>
    /\ calls = NoCalls
    /\ evaluation_text = <<>>
    /\ total_scores = NoTotals
    /\ failures = {}
    /\ sample_outcome = NoOutcome
    /\ result = NoResult
    /\ raised = <<>>
    /\ invocations = [i \in 1..Len(ConcurrentIds) |-> Entered(ConcurrentIds[i])]
    /\ bucket_exists \in BOOLEAN

\* what no concurrent step touches
ConcurrentFrame ==
    /\ UNCHANGED <<env, pc, data, optimized_prompt, input_image_url, unique_id,
                   mode_type, reference_image_url, quality_specification,
                   generated_image_bytes, generated_image_url, judge_request,
                   calls, evaluation_text, total_scores, failures,
                   sample_outcome, result, raised>>
    /\ UNCHANGED <<scoring_vars, batch_vars, unit_vars>>

\* the evaluation returns (score, explanation)
Finished(inv, score, explanation) ==
    [inv EXCEPT !.pc = "done", !.score = score, !.explanation = explanation]

\* generate_image_with_gemini(input_image_url, full_prompt) in one evaluation
ConcurrentGenerate ==
    /\ \E i \in DOMAIN invocations, net \in BatchNetOutcomes, resp \in BatchGenResponses :
         LET inv == invocations[i]
             full_prompt == <<"Generate an image: ">> \o optimized_prompt
             g == generate_image_with_gemini(env, inv.input_image_url, full_prompt, net, resp)
             seen == [inv EXCEPT !.drawn.net = net,
                                 !.drawn.image = ~upstream_gave_no_image("ok", resp)]
         IN /\ inv.pc = "generate"
            /\ invocations' =
                  [invocations EXCEPT ![i] =
                      IF ~g.ok
                      THEN Finished(seen, 0, <<W("Image generation failed: ")>> \o g.err)
                      ELSE IF g.bytes = ""
                      THEN Finished(seen, 0,
                               <<W("Image generation failed - no image was produced")>>)
                      ELSE [seen EXCEPT !.pc = "bucket", !.generated_image_bytes = g.bytes]]
    /\ UNCHANGED <<bucket, records, bucket_exists>>
    /\ ConcurrentFrame

\* bucket.exists() in one evaluation
ConcurrentCheckBucket ==
    /\ \E i \in DOMAIN invocations :
         /\ invocations[i].pc = "bucket"
         /\ invocations' = [invocations EXCEPT ![i].pc = "upload",
                                                ![i].bucket_seen = bucket_exists]
    /\ UNCHANGED <<bucket, records, bucket_exists>>
    /\ ConcurrentFrame

\* create_bucket when the bucket was not seen (it raises Conflict when the
\* bucket exists by now), then the upload of the image
ConcurrentUpload ==
    /\ \E i \in DOMAIN invocations, upload \in {"ok", "upload_error"}, file \in FileNames :
         LET inv == invocations[i]
             conflict == ~inv.bucket_seen /\ bucket_exists
             s == save_generated_image_to_storage(
                      bucket, inv.generated_image_bytes,
                      IF conflict THEN "bucket_error" ELSE upload, file)
             seen == [inv EXCEPT !.drawn.upload = upload]
         IN /\ inv.pc = "upload"
            /\ bucket_exists' = TRUE
            /\ bucket' = s.bucket
            /\ invocations' =
                  [invocations EXCEPT ![i] =
                      IF ~s.ok
                      THEN Finished(seen, 0, <<W("Sample evaluation failed: ")>> \o s.err)
                      ELSE [seen EXCEPT !.pc = "record", !.generated_image_url = s.url]]
    /\ UNCHANGED records
    /\ ConcurrentFrame

\* store_generation_record(...) in one evaluation
ConcurrentRecord ==
    /\ \E i \in DOMAIN invocations, outcome \in InsertOutcomes :
         LET inv == invocations[i]
             r == store_generation_record(env, records, optimized_prompt,
                                          inv.generated_image_url, inv.unique_id,
                                          inv.input_image_url, inv.reference_image_url,
                                          outcome)
             seen == [inv EXCEPT !.drawn.insert = outcome]
         IN /\ inv.pc = "record"
            /\ records' = r.records
            /\ invocations' =
                  [invocations EXCEPT ![i] =
                      IF ~r.ok
                      THEN Finished(seen, 0, <<W("Sample evaluation failed: ")>> \o r.err)
                      ELSE [seen EXCEPT !.pc = "judge"]]
    /\ UNCHANGED <<bucket, bucket_exists>>
    /\ ConcurrentFrame

\* evaluate_with_gemini_bytes(generated_image_bytes, reference_image_url) in
\* one evaluation
ConcurrentJudge ==
    /\ \E i \in DOMAIN invocations, text \in ConcurrentJudgeTexts :
         LET inv == invocations[i]
             j == reference_score(text, get_evaluation_criteria(env))
             seen == [inv EXCEPT !.drawn.text = text]
         IN /\ inv.pc = "judge"
            /\ invocations' =
                  [invocations EXCEPT ![i] =
                      IF j.ok
                      THEN Finished(seen, j.score, j.text)
                      ELSE Finished(seen, 0, <<W("Evaluation failed: ")>> \o j.text)]
    /\ UNCHANGED <<bucket, records, bucket_exists>>
    /\ ConcurrentFrame

NextConcurrent ==
    \/ ConcurrentGenerate
    \/ ConcurrentCheckBucket
    \/ ConcurrentUpload
    \/ ConcurrentRecord
    \/ ConcurrentJudge

SpecConcurrent == InitConcurrent /\ [][NextConcurrent]_vars

----------------------------------------------------------------------------
(* generate_image_with_gemini called on its own *)

\* the uploaded image URLs the gateway is called with
GatewayUrls == { <<"https://in/pet.jpg">>, <<"https://ref/pet.jpg">>, <<"pet.jpg">> }

\* the upstream model's answers: those of GenResponses, and answers whose
\* image part is followed by text, whose data parts are all empty, or whose
\* second candidate alone carries an image
GatewayResponses ==
    GenResponses \cup
    { [raises |-> FALSE, candidates |-> <<[has_content |-> TRUE,
                                           parts |-> <<DataPart("PNG1"),
                                                       TextPart("Here is your image"),
                                                       DataPart("PNG2")>>]>>],
      [raises |-> FALSE, candidates |-> <<[has_content |-> TRUE,
                                           parts |-> <<DataPart(""), DataPart("")>>]>>],
      [raises |-> FALSE, candidates |-> <<[has_content |-> TRUE,
                                           parts |-> <<TextPart("I cannot draw this")>>],
                                          [has_content |-> TRUE,
                                           parts |-> <<DataPart("PNG1")>>]>>] }

\* with and without the gateway's API key
InitGateway ==
    /\ Init
    /\ env \in {DeployedEnvironment, [DeployedEnvironment EXCEPT !.GEMINI_API_KEY = Unset]}

\* generated_image_bytes = generate_image_with_gemini(input_image_url, full_prompt)
CallGenerate ==
    /\ ~generation.called
    /\ \E url \in GatewayUrls, net \in NetOutcomes, resp \in GatewayResponses :
         generation' =
             [called |-> TRUE, uploaded_image_url |-> url, net |-> net, response |-> resp,
              returned |-> generate_image_with_gemini(
                               env, url, <<"Generate an image: ">> \o BatchPrompt, net, resp)]
    /\ UNCHANGED <<extraction, insertion>>
    /\ UNCHANGED <<request_vars, scoring_vars, batch_vars, concurrent_vars>>

NextGateway == CallGenerate

SpecGateway == InitGateway /\ [][NextGateway]_vars

----------------------------------------------------------------------------
(* The judgment text parsed and scored on its own *)

\* what the judging model writes before the JSON object
ProseBefore ==
    { <<>>,
      <<W("Here is my evaluation:")>>,
      <<W("Sure!"), W("The scores follow.")>>,
      <<RB, W("as requested:")>>,
      <<W("Using the template"), LB, W("category: score"), RB, W("I get:")>> }

\* what the judging model writes after the JSON object
ProseAfter ==
    { <<>>,
      <<W("Let me know if you need more.")>>,
      <<W("Note: every score is out of 10"), LB>>,
      <<W("Done."), RB>>,
      <<W("The format was"), LB, W("category: score"), RB>> }

\* well-formed judgment objects, of both modes
JudgmentObjects ==
    { RefText(ComprehensiveCategories, 9, 7),
      RefText(SimplifiedCategories, 3, 8),
      PairsRefText(MixedPairs1, MixedPairs2),
      StandaloneText(ComprehensiveCategories, 6),
      StandaloneText(<<"visual_appeal">>, 4) }

InitExtraction == Init /\ env = DeployedEnvironment

\* evaluation_text = response.text.strip(), then extraction, json.loads and
\* the scoring of both evaluators
ParseJudgment ==
    /\ ~extraction.called
    /\ \E before \in ProseBefore, object \in JudgmentObjects, after \in ProseAfter :
         LET text == before \o object \o after
         IN extraction' =
                [called |-> TRUE, before |-> before, object |-> object, after |-> after,
                 evaluation_data |-> extract_json(text),
                 reference |-> reference_score(text, get_evaluation_criteria(env)),
                 standalone |-> standalone_score(text, get_evaluation_criteria(env))]
    /\ UNCHANGED <<generation, insertion>>
    /\ UNCHANGED <<request_vars, scoring_vars, batch_vars, concurrent_vars>>

NextExtraction == ParseJudgment

SpecExtraction == InitExtraction /\ [][NextExtraction]_vars

----------------------------------------------------------------------------
(* store_generation_record called on its own *)

\* the unique_ids of the callers
RecordIds ==
    { <<"unknown">>,
      <<"eval-7">>,
      <<"1700000000000_ab12", "_sample_", "4", "2">>,
      <<"1700000000000_ab12", "_sample_", "0", "0", "7">>,
      <<"run", "_sample_", "1", "_sample_", "9">>,
      <<"run", "_sample_", "4", "_sample_", "retry">>,
      <<"run", "_sample_", "4", "b">>,
      <<"run", "_sample_">>,
      <<"_sample_", "3">> }

\* the reference the caller passes: a URL, or None in standalone mode
RecordReferences == { <<"https://ref/pet.jpg">>, None }

\* the record store's credentials set or not
InitRecord ==
    /\ Init
    /\ env.EVALUATION_MODE = Unset
    /\ env.EVALUATION_CRITERIA = Unset
    /\ env.GEMINI_API_KEY # Unset

\* evaluate_single_sample's call of store_generation_record, with the prompt
\* it was given and the URL of the stored artifact
CallStoreRecord ==
    /\ ~insertion.called
    /\ \E prompt \in {EmptyStr, BatchPrompt}, uid \in RecordIds,
          ref_url \in RecordReferences, outcome \in InsertOutcomes :
         LET s == save_generated_image_to_storage(<<>>, "PNG1", "ok", "1001.jpg")
         IN insertion' =
                [called |-> TRUE, optimized_prompt |-> prompt, unique_id |-> uid,
                 reference_image_url |-> ref_url, outcome |-> outcome,
                 returned |-> store_generation_record(
                                  env, <<>>, prompt, s.url, uid,
                                  <<"https://in/pet.jpg">>, ref_url, outcome)]
    /\ UNCHANGED <<generation, extraction>>
    /\ UNCHANGED <<request_vars, scoring_vars, batch_vars, concurrent_vars>>

NextRecord == CallStoreRecord

SpecRecord == InitRecord /\ [][NextRecord]_vars

----------------------------------------------------------------------------
(* Properties *)

Returned == pc = "returned"

InUnit(score) == 0 <= score /\ score <= Scale

\* C1: evaluate_single_sample never lets an exception escape: whichever of
\* the generate, artifact-store, record-append and judge steps fails, it
\* returns a pair whose score is exactly 0.0 and whose diagnostic is non-empty,
\* and an exception leaves the handler only before the evaluator was entered.
C1_NoExceptionEscapes ==
    /\ pc = "raised" => calls = NoCalls
    /\ failures # {} =>
          /\ Returned
          /\ sample_outcome.score = 0
          /\ Len(sample_outcome.explanation) > 0

C1_Witness ==
    /\ Returned
    /\ failures = {"record"}
    /\ sample_outcome.score = 0
    /\ sample_outcome.explanation[1] = W("Sample evaluation failed: ")

\* C2: in every response image_similarity_score and every element of
\* details.individual_scores lie in [0,1], also when the judgment's category
\* scores are outside [0,10].
C2_ResponseScoreInUnitInterval ==
    Returned =>
        /\ InUnit(result.image_similarity_score)
        /\ \A i \in 1..Len(result.details.individual_scores) :
              InUnit(result.details.individual_scores[i])

C2_Witness ==
    /\ Returned
    /\ sample_outcome.score > Scale
    /\ result.image_similarity_score = Scale
    /\ result.details.individual_scores = <<Scale>>

\* C3: the score returned by evaluate_single_sample itself is within [0,1] in
\* both modes, for every judgment result.
C3_SampleScoreInUnitInterval ==
    Returned => InUnit(sample_outcome.score)

\* C4: when the generate step fails the sample ends with score 0.0 and an
\* explanation reporting that image generation failed, the artifact sink, the
\* record sink and the judge are never invoked, and nothing is raised.
C4_GenerationFailureScoredZero ==
    "generate" \in failures =>
        /\ Returned
        /\ sample_outcome.score = 0
        /\ sample_outcome.explanation[1] \in
              { W("Image generation failed: "),
                W("Image generation failed - no image was produced") }
        /\ calls.store = 0 /\ calls.record = 0 /\ calls.judge = 0
        /\ bucket = <<>> /\ records = <<>>

C4_Witness ==
    /\ Returned
    /\ "generate" \in failures
    /\ calls.generate = 1
    /\ W("Gemini did not return generated image data") \in
           {sample_outcome.explanation[i] : i \in 1..Len(sample_outcome.explanation)}

\* C5: when persisting the generated artifact fails the outcome is score 0.0
\* with a reason that reports a storage failure, no generation record is
\* appended and the judge is never invoked.
C5_StorageFailureScoredZero ==
    "store" \in failures =>
        /\ Returned
        /\ sample_outcome.score = 0
        /\ \E i \in 1..Len(sample_outcome.explanation) :
              sample_outcome.explanation[i] \in
                  { W("Storage upload failed: "),
                    W("Image storage failed - could not save generated image") }
        /\ calls.record = 0 /\ calls.judge = 0
        /\ records = <<>>

C5_Witness ==
    /\ Returned
    /\ "store" \in failures
    /\ calls.store = 1
    /\ generated_image_bytes # ""
    /\ sample_outcome.explanation[2] = W("Storage upload failed: ")

\* a credential or configuration value a step needed was missing, or the
\* artifact sink could not be reached
InfrastructureFailure ==
    \/ calls.generate > 0 /\ EnvGet(env, "GEMINI_API_KEY", "") = ""
    \/ calls.record > 0 /\ (\/ EnvGet(env, "SUPABASE_URL", "") = ""
                            \/ EnvGet(env, "SUPABASE_SERVICE_ROLE_KEY", "") = "")
    \/ "store" \in failures

\* C6: an infrastructure failure during an evaluation aborts the request with
\* a hard error; it never produces a response carrying a score.
C6_InfrastructureFailureAborts ==
    InfrastructureFailure => ~Returned

\* the parsed judgment lacks the score structure of the mode
LacksScoreStructure(val, mode) ==
    \/ ~HasKey(val, "scores")
    \/ /\ mode = "reference_comparison"
       /\ \/ ~HasKey(val.m["scores"], "image1")
          \/ ~HasKey(val.m["scores"], "image2")

\* C7: a judgment response with no well-formed JSON object between its first
\* '{' and last '}', or whose object lacks the score structure of the active
\* mode, is absorbed: score 0.0, a human-readable explanation, and the request
\* returns a response instead of raising.
C7_BadJudgmentAbsorbed ==
    /\ pc = "raised" => calls.judge = 0
    /\ (/\ evaluation_text # <<>>
        /\ \/ ~extract_json(evaluation_text).ok
           \/ LacksScoreStructure(extract_json(evaluation_text).val,
                                  judge_request.mode_type))
       =>
        /\ Returned
        /\ sample_outcome.score = 0
        /\ result.image_similarity_score = 0
        /\ Len(sample_outcome.explanation) > 1
        /\ sample_outcome.explanation[1] = W("Evaluation failed: ")
        /\ result.explanation = sample_outcome.explanation

C7_Witness ==
    /\ Returned
    /\ judge_request.mode_type = "reference_comparison"
    /\ evaluation_text = <<LB, K("scores"), LB, K("image1")>>
                             \o ScoresObj(SimplifiedCategories, 6) \o <<RB, RB>>
    /\ sample_outcome.score = 0
    /\ sample_outcome.explanation[3] =
           W("Missing required score data in evaluation response")

\* the request's input image reference is empty or missing
InputReferenceEmpty(d) ==
    \/ "input" \notin DOMAIN d
    \/ d["input"] = EmptyStr
    \/ d["input"][1] = ","

\* C8: a request whose input image reference is empty or missing fails fast:
\* evaluate_image_prompt raises a descriptive error, returns no score and
\* performs no generate, artifact-store, record-append or judge call.
C8_MissingInputFailsFast ==
    (pc # "idle" /\ InputReferenceEmpty(data)) =>
        /\ pc = "raised"
        /\ raised = <<"No input image URL provided">>
        /\ result = NoResult
        /\ calls = NoCalls
        /\ bucket = <<>> /\ records = <<>>

C8_Witness ==
    /\ pc = "raised"
    /\ "input" \in DOMAIN data
    /\ data["input"] = <<",", "a small dog">>
    /\ raised = <<"No input image URL provided">>

\* the request's target yields no usable reference image
NoUsableReference(d) ==
    \/ "target" \notin DOMAIN d
    \/ d["target"] = EmptyStr
    \/ d["target"] = <<"{}">>

\* C9: in reference_comparison mode a request whose target yields no usable
\* reference image fails fast with an error before any image is generated,
\* stored or recorded, rather than being answered with a score.
C9_UnusableTargetFailsFast ==
    (pc # "idle" /\ mode_type = "reference_comparison" /\ NoUsableReference(data)) =>
        /\ pc = "raised"
        /\ calls = NoCalls
        /\ bucket = <<>> /\ records = <<>>

\* C10: the resolver is total and lenient: the mode is one of the two
\* registered modes and the rubric one of the three registered rubrics, a
\* registered name resolves to itself and an unknown or unset name to the
\* default (reference_comparison, comprehensive).
C10_ResolverTotalAndLenient ==
    /\ pc # "idle" =>
          /\ mode_type \in {"reference_comparison", "standalone_quality"}
          /\ env.EVALUATION_MODE \in {"reference_comparison", "standalone_quality"}
                => mode_type = env.EVALUATION_MODE
          /\ env.EVALUATION_MODE \notin {"reference_comparison", "standalone_quality"}
                => mode_type = "reference_comparison"
    /\ pc = "judging" =>
          /\ judge_request.criteria_type \in {"comprehensive", "simplified", "artistic"}
          /\ env.EVALUATION_CRITERIA \in {"comprehensive", "simplified", "artistic"}
                => judge_request.criteria_type = env.EVALUATION_CRITERIA
          /\ env.EVALUATION_CRITERIA \notin {"comprehensive", "simplified", "artistic"}
                => judge_request.criteria_type = "comprehensive"
          /\ get_evaluation_criteria(env).categories \in
                {ComprehensiveCategories, SimplifiedCategories, ArtisticCategories}

C10_Witness ==
    /\ pc = "judging"
    /\ env.EVALUATION_MODE = "legacy_mode"
    /\ env.EVALUATION_CRITERIA = Unset
    /\ mode_type = "reference_comparison"
    /\ judge_request.criteria_type = "comprehensive"

\* the judging model answered and the answer was scored
Scored == Returned /\ calls.judge = 1 /\ "judge" \notin failures /\ evaluation_text # <<>>

\* the category list of the rubric the request was judged with
ActiveCategories == EVALUATION_CRITERIA[judge_request.criteria_type].categories

\* C11: in reference_comparison mode, whenever the generated image's rubric
\* total equals the reference image's rubric total, the score is exactly 0.5.
C11_EqualTotalsScoreHalf ==
    (/\ Scored
     /\ judge_request.mode_type = "reference_comparison"
     /\ total_scores.generated = total_scores.reference)
    =>
     /\ 2 * sample_outcome.score = Scale
     /\ 2 * result.image_similarity_score = Scale

C11_Witness ==
    /\ Scored
    /\ judge_request.mode_type = "reference_comparison"
    /\ judge_request.criteria_type = "artistic"
    /\ evaluation_text = <<W("Here is my evaluation:")>>
                             \o RefText(SimplifiedCategories, 10, 10)
                             \o <<W("Let me know if you need more.")>>
    /\ total_scores = [generated |-> 30, reference |-> 30]
    /\ 2 * sample_outcome.score = Scale

\* C13: in standalone_quality mode the score equals total / (10 * N) for the
\* N categories of the active rubric; it is 0 when every category is scored 0
\* and 1 when every category is scored 10.
C13_StandaloneFractionOfMaximum ==
    (Scored /\ judge_request.mode_type = "standalone_quality") =>
        LET n == Len(ActiveCategories)
            score == sample_outcome.score
        IN /\ score * (10 * n) <= total_scores.generated * Scale
           /\ total_scores.generated * Scale < (score + 1) * (10 * n)
           /\ evaluation_text \in
                  { StandaloneText(ActiveCategories, 10),
                    <<W("Sure!")>> \o StandaloneText(ActiveCategories, 10) \o <<W("Done.")>> }
                => score = Scale
           /\ evaluation_text = StandaloneText(ActiveCategories, 0) => score = 0

C13_Witness ==
    /\ Scored
    /\ judge_request.mode_type = "standalone_quality"
    /\ judge_request.criteria_type = "simplified"
    /\ evaluation_text = <<W("Sure!")>> \o StandaloneText(SimplifiedCategories, 10)
                             \o <<W("Done.")>>
    /\ total_scores.generated = 50
    /\ sample_outcome.score = Scale

\* the answers whose <<category, score>> pairs are known, with the mode whose
\* format they follow
Uniform(cats, v) == [i \in 1..Len(cats) |-> <<cats[i], v>>]

ScoreCases ==
    { [mode |-> "reference_comparison",
       text |-> RefText(ComprehensiveCategories, 7, 5),
       image1 |-> Uniform(ComprehensiveCategories, 7),
       image2 |-> Uniform(ComprehensiveCategories, 5)],
      [mode |-> "reference_comparison",
       text |-> RefText(ComprehensiveCategories, 15, -3),
       image1 |-> Uniform(ComprehensiveCategories, 15),
       image2 |-> Uniform(ComprehensiveCategories, -3)],
      [mode |-> "reference_comparison",
       text |-> RefText(ArtisticCategories, 2, 9),
       image1 |-> Uniform(ArtisticCategories, 2),
       image2 |-> Uniform(ArtisticCategories, 9)],
      [mode |-> "reference_comparison",
       text |-> RefText(<<"pet_likeness">>, 8, 0),
       image1 |-> << <<"pet_likeness", 8>> >>,
       image2 |-> << <<"pet_likeness", 0>> >>],
      [mode |-> "reference_comparison",
       text |-> PairsRefText(MixedPairs1, MixedPairs2),
       image1 |-> MixedPairs1,
       image2 |-> MixedPairs2],
      [mode |-> "standalone_quality",
       text |-> StandaloneText(ComprehensiveCategories, 15),
       image1 |-> Uniform(ComprehensiveCategories, 15),
       image2 |-> <<>>],
      [mode |-> "standalone_quality",
       text |-> StandaloneText(ArtisticCategories, -3),
       image1 |-> Uniform(ArtisticCategories, -3),
       image2 |-> <<>>],
      [mode |-> "standalone_quality",
       text |-> StandaloneText(<<"visual_appeal">>, 4),
       image1 |-> << <<"visual_appeal", 4>> >>,
       image2 |-> <<>>] }

RECURSIVE ExpectedTotal(_, _, _)
\* the sum of the scores of the pairs, from position i on, whose category is
\* in the rubric's category list
ExpectedTotal(pairs, cats, i) ==
    IF i > Len(pairs) THEN 0
    ELSE (IF \E k \in 1..Len(cats) : cats[k] = pairs[i][1] THEN pairs[i][2] ELSE 0)
         + ExpectedTotal(pairs, cats, i + 1)

\* C14: an image's total is the sum of the judgment's scores over exactly the
\* rubric's category list: a rubric category absent from the judgment
\* contributes 0 and does not fail the evaluation, a key that is not in the
\* rubric contributes nothing, and a category scored 0 does not change the
\* total.
C14_TotalOverRubricCategories ==
    \A c \in ScoreCases :
        (/\ Returned
         /\ calls.judge = 1
         /\ evaluation_text = c.text
         /\ judge_request.mode_type = c.mode)
        =>
         /\ "judge" \notin failures
         /\ total_scores.generated = ExpectedTotal(c.image1, ActiveCategories, 1)
         /\ total_scores.reference = ExpectedTotal(c.image2, ActiveCategories, 1)

C14_Witness ==
    /\ Scored
    /\ judge_request.mode_type = "reference_comparison"
    /\ judge_request.criteria_type = "simplified"
    /\ evaluation_text = PairsRefText(MixedPairs1, MixedPairs2)
    /\ total_scores = [generated |-> 8, reference |-> 8]

\* a generation record carrying the request's unique_id has been appended
RecordForRequest ==
    \E i \in 1..Len(records) : records[i].evaluation_unique_id = unique_id

\* C18 as stated: whenever evaluate_image_prompt returns a response a
\* generation record whose evaluation_unique_id is the request's unique_id has
\* been appended.
C18_ResponseImpliesRecord ==
    Returned => RecordForRequest

\* C18 amended: a response returned after the generate, artifact-store and
\* record-append steps all succeeded comes with exactly one appended record,
\* whose evaluation_unique_id is the request's unique_id; a response returned
\* after one of these steps failed has score 0.0 and no record.
C18_RecordIffStepsSucceeded ==
    Returned =>
        IF failures \cap {"generate", "store", "record"} = {}
        THEN Len(records) = 1 /\ RecordForRequest
        ELSE records = <<>> /\ result.image_similarity_score = 0

C18_Witness ==
    /\ Returned
    /\ failures = {}
    /\ unique_id = <<"1700000000000_ab12", "_sample_", "4", "2">>
    /\ Len(records) = 1
    /\ records[1].evaluation_unique_id = unique_id

\* url is the text of the request's input before its first comma
IsInputReference(url, d) ==
    LET input_data == DataGet(d, "input", EmptyStr)
    IN /\ \A i \in 1..Len(url) : url[i] # ","
       /\ Len(url) <= Len(input_data)
       /\ SubSeq(input_data, 1, Len(url)) = url
       /\ Len(input_data) = Len(url) \/ input_data[Len(url) + 1] = ","

C20_NoStepRepeated ==
    /\ calls.generate <= 1
    /\ calls.store <= 1
    /\ calls.record <= 1
    /\ calls.judge <= 1
    /\ Cardinality(DOMAIN bucket) <= 1
    /\ Len(records) <= 1

C20_Witness ==
    /\ Returned
    /\ failures = {"judge"}
    /\ calls = [generate |-> 1, store |-> 1, record |-> 1, judge |-> 1]
    /\ Cardinality(DOMAIN bucket) = 1
    /\ Len(records) = 1

InDocumentedRange(d) == -DocumentedRange <= d /\ d <= DocumentedRange

BatchDone == batch_pc = "done"

\* the sample ids whose outcome is the score 0.0
ZeroScored == {id \in DOMAIN outcomes : outcomes[id] = 0}

C16_EmptySampleStoreAborts ==
    (batch_pc # "idle" /\ samples = <<>>) =>
        /\ batch_pc = "aborted"
        /\ batch_error # ""
        /\ in_flight = {}
        /\ next_sample = 1
        /\ DOMAIN outcomes = {}

C16_Witness ==
    /\ batch_pc = "aborted"
    /\ samples = <<>>
    /\ batch_error = "No samples found"
    /\ DOMAIN outcomes = {}

\* every sample was evaluated exactly once and its score is filed under its
\* own sample id
EachSampleOnce ==
    /\ \A i \in 1..Len(samples) : evaluations[i] = 1
    /\ DOMAIN outcomes = {samples[i].id : i \in 1..Len(samples)}

\* C17: the scheduler bounds parallelism: at every moment of a batch run the
\* number of samples in flight is at most the pool capacity, no sample is
\* evaluated twice, and every sample of the batch is eventually evaluated
\* exactly once with its score associated to its own sample id.
C17_BoundedPoolEachSampleOnce ==
    /\ [](Cardinality(in_flight) <= PoolCapacity)
    /\ [](\A i \in DOMAIN evaluations :
             /\ evaluations[i] <= 1
             /\ (evaluations[i] = 1) = (samples[i].id \in DOMAIN outcomes))
    /\ [](BatchDone => EachSampleOnce)
    /\ (batch_pc = "running") ~> (BatchDone /\ EachSampleOnce)

C17_Witness ==
    /\ BatchDone
    /\ Len(samples) = MaxSamples
    /\ peak_in_flight = PoolCapacity
    /\ EachSampleOnce

\* the evaluation ended with the judging model's own answer as explanation
ScoredOutcome ==
    /\ Returned
    /\ sample_outcome.explanation # <<>>
    /\ sample_outcome.explanation = evaluation_text

\* the URLs under which the artifact sink holds an object
StoredUrls ==
    { <<"https://storage.googleapis.com/", BucketName, "/">> \o filename :
          filename \in DOMAIN bucket }

\* C21: within one sample the steps are strictly sequential: the artifact sink
\* is invoked only after generate succeeded, the record is appended only after
\* the artifact was stored and carries the stored artifact's URL, judge is
\* invoked only after the record was appended, and a scored outcome is reached
\* only after judge succeeded.
C21_StepsStrictlySequential ==
    /\ calls.store >= 1 =>
          /\ calls.generate = 1
          /\ "generate" \notin failures
          /\ generated_image_bytes # ""
    /\ calls.record >= 1 =>
          /\ calls.store = 1
          /\ "store" \notin failures
          /\ generated_image_url \in StoredUrls
    /\ \A i \in 1..Len(records) :
          /\ calls.record = 1
          /\ records[i].generated_image_url \in StoredUrls
          /\ records[i].generated_image_url = generated_image_url
    /\ calls.judge >= 1 =>
          /\ calls.record = 1
          /\ "record" \notin failures
          /\ Len(records) = 1
    /\ ScoredOutcome =>
          /\ calls = [generate |-> 1, store |-> 1, record |-> 1, judge |-> 1]
          /\ failures = {}

C21_Witness ==
    /\ ScoredOutcome
    /\ Len(records) = 1
    /\ records[1].generated_image_url \in StoredUrls
    /\ calls.judge = 1
    /\ failures = {}

\* the part carries non-empty binary data
CarriesImage(part) == part.inline_data /\ part.data # ""

\* the parts of the answer's first candidate, none when there is no candidate
\* or no content
AnswerParts(resp) ==
    IF Len(resp.candidates) = 0 \/ ~resp.candidates[1].has_content
    THEN <<>>
    ELSE resp.candidates[1].parts

\* the gateway got an answer from the upstream model
Answered ==
    /\ generation.called
    /\ env.GEMINI_API_KEY # Unset
    /\ WellFormedUrl(generation.uploaded_image_url)
    /\ generation.net = "ok"
    /\ ~generation.response.raises

\* C22: generate returns the data of the first response part that carries
\* non-empty binary image data, whatever text or empty parts precede it, and
\* fails (never returning placeholder content) when the upstream response has
\* no candidates, no content parts, or no part with image data.
C22_FirstImagePartOrFailure ==
    /\ Answered =>
          LET parts == AnswerParts(generation.response)
          IN IF \E i \in 1..Len(parts) : CarriesImage(parts[i])
             THEN /\ generation.returned.ok
                  /\ \E i \in 1..Len(parts) :
                        /\ CarriesImage(parts[i])
                        /\ \A j \in 1..(i - 1) : ~CarriesImage(parts[j])
                        /\ generation.returned.bytes = parts[i].data
             ELSE /\ ~generation.returned.ok
                  /\ generation.returned.bytes = ""
                  /\ generation.returned.err # <<>>
    /\ (generation.called /\ ~Answered) =>
          /\ ~generation.returned.ok
          /\ generation.returned.bytes = ""

C22_Witness ==
    /\ Answered
    /\ Len(AnswerParts(generation.response)) = 4
    /\ ~CarriesImage(AnswerParts(generation.response)[1])
    /\ ~CarriesImage(AnswerParts(generation.response)[2])
    /\ CarriesImage(AnswerParts(generation.response)[4])
    /\ generation.returned.ok
    /\ generation.returned.bytes = "PNG1"

\* the token occurs in the text
Occurs(tok, text) == \E i \in 1..Len(text) : text[i] = tok

\* the outcome of an evaluator, apart from the text it hands back
ScoreOf(j) == [ok |-> j.ok, score |-> j.score,
               totals |-> IF j.ok THEN <<j.generated_total, j.reference_total>> ELSE <<>>]

\* the text is parsed to the embedded object and scored like it
ExtractedAsEmbedded ==
    /\ extraction.evaluation_data.ok
    /\ extraction.evaluation_data = json_loads(extraction.object)
    /\ ScoreOf(extraction.reference) =
           ScoreOf(reference_score(extraction.object, get_evaluation_criteria(env)))
    /\ ScoreOf(extraction.standalone) =
           ScoreOf(standalone_score(extraction.object, get_evaluation_criteria(env)))

\* C23 as stated: a judgment response whose text has arbitrary prose before and
\* after a single well-formed JSON object is parsed to that same object, and
\* the resulting scores equal those of the embedded object.
C23_ProseAroundObjectIgnored ==
    extraction.called => ExtractedAsEmbedded

\* C23 amended: when the prose before the JSON object contains no '{' and the
\* prose after it contains no '}', the text is parsed to that same object (the
\* substring from the first '{' to the last '}' inclusive) and the resulting
\* scores equal those of the embedded object; with a '{' before the object or
\* a '}' after it the extracted substring is not the embedded object.
C23_BraceFreeProseIgnored ==
    extraction.called =>
        IF ~Occurs(LB, extraction.before) /\ ~Occurs(RB, extraction.after)
        THEN ExtractedAsEmbedded
        ELSE extraction.evaluation_data # json_loads(extraction.object)

C23_Witness ==
    /\ extraction.called
    /\ extraction.before = <<W("Sure!"), W("The scores follow.")>>
    /\ extraction.after = <<W("Let me know if you need more.")>>
    /\ extraction.object = PairsRefText(MixedPairs1, MixedPairs2)
    /\ extraction.evaluation_data.ok
    /\ extraction.reference.ok

\* the request's target without one leading "quality_specification:"
TargetWithoutPrefix ==
    LET target == DataGet(data, "target", EmptyStr)
    IN IF Len(target) > 0 /\ target[1] = "quality_specification:"
       THEN SubSeq(target, 2, Len(target))
       ELSE target

\* C24: in standalone_quality mode no reference image is used anywhere in the
\* evaluation: the target is taken as the quality specification (with one
\* leading "quality_specification:" prefix removed when present), the appended
\* record's reference_image_url is null, and the judge receives only the input
\* image and the generated image.
C24_StandaloneUsesNoReference ==
    (pc # "idle" /\ mode_type = "standalone_quality") =>
        /\ quality_specification = TargetWithoutPrefix
        /\ reference_image_url = None
        /\ \A i \in 1..Len(records) : records[i].reference_image_url = None
        /\ judge_request # NoJudgeRequest =>
              /\ judge_request.mode_type = "standalone_quality"
              /\ judge_request.images = <<input_image_url, <<generated_image_bytes>> >>
              /\ judge_request.quality_specification \in {None, TargetWithoutPrefix}

C24_Witness ==
    /\ ScoredOutcome
    /\ mode_type = "standalone_quality"
    /\ "target" \in DOMAIN data
    /\ data["target"] = <<"quality_specification:", "quality_specification:",
                          "a dreamy watercolor">>
    /\ quality_specification = <<"quality_specification:", "a dreamy watercolor">>
    /\ Len(records) = 1
    /\ records[1].reference_image_url = None
    /\ judge_request.images = <<input_image_url, <<generated_image_bytes>> >>

\* the record store's credentials are not both configured
RecordCredentialsMissing ==
    env.SUPABASE_URL = Unset \/ env.SUPABASE_SERVICE_ROLE_KEY = Unset

\* the record step was entered and the record could not be appended
RecordAppendFailed ==
    \/ "record" \in failures
    \/ calls.record >= 1 /\ RecordCredentialsMissing

\* C25: when appending the generation record fails (missing record-store
\* credentials or a failed insert) the sample is aborted: the judge is never
\* invoked and the sample's outcome is score 0.0 with a diagnostic; the already
\* stored artifact is left in place.
C25_RecordFailureAbortsSample ==
    RecordAppendFailed =>
        /\ Returned
        /\ calls.judge = 0
        /\ judge_request = NoJudgeRequest
        /\ evaluation_text = <<>>
        /\ sample_outcome.score = 0
        /\ Len(sample_outcome.explanation) > 0
        /\ result.image_similarity_score = 0
        /\ records = <<>>
        /\ Cardinality(DOMAIN bucket) = 1
        /\ generated_image_url \in StoredUrls

C25_Witness ==
    /\ Returned
    /\ "record" \in failures
    /\ ~RecordCredentialsMissing
    /\ calls.judge = 0
    /\ sample_outcome.score = 0
    /\ generated_image_url \in StoredUrls

\* C26: mode and rubric are resolved once per request: the mode used to parse
\* the target is the mode that selects the judging path, and the rubric whose
\* prompt is sent to the judge is the rubric whose category list is summed,
\* even when EVALUATION_MODE or EVALUATION_CRITERIA changes while the request
\* is in flight.
C26_ModeAndRubricResolvedOnce ==
    /\ judge_request # NoJudgeRequest => judge_request.mode_type = mode_type
    /\ \A c \in ScoreCases :
          (/\ ScoredOutcome
           /\ evaluation_text = c.text
           /\ judge_request.mode_type = c.mode)
          =>
           /\ total_scores.generated = ExpectedTotal(c.image1, ActiveCategories, 1)
           /\ total_scores.reference = ExpectedTotal(c.image2, ActiveCategories, 1)

\* the object the artifact sink holds under the URL
StoredObject(url) ==
    bucket[CHOOSE filename \in DOMAIN bucket :
               url = <<"https://storage.googleapis.com/", BucketName, "/">> \o filename]

\* C27: there is no rollback: when judging fails after the artifact was stored
\* and the record appended, the sample's outcome is 0.0 but the stored artifact
\* and the appended record both remain, so a record exists for an evaluation
\* whose score is a failure 0.0.
C27_NoRollbackAfterJudgeFailure ==
    "judge" \in failures =>
        /\ Returned
        /\ sample_outcome.score = 0
        /\ result.image_similarity_score = 0
        /\ Len(records) = 1
        /\ records[1].evaluation_unique_id = unique_id
        /\ records[1].generated_image_url = generated_image_url
        /\ generated_image_url \in StoredUrls
        /\ StoredObject(generated_image_url) = generated_image_bytes

C27_Witness ==
    /\ Returned
    /\ "judge" \in failures
    /\ evaluation_text = <<W("I cannot rate these images.")>>
    /\ sample_outcome.score = 0
    /\ Len(records) = 1
    /\ Cardinality(DOMAIN bucket) = 1

\* the text of the id after its last "_sample_" marker
AfterLastMarker(uid) ==
    LET last == CHOOSE i \in 1..Len(uid) :
                    /\ uid[i] = "_sample_"
                    /\ \A j \in (i + 1)..Len(uid) : uid[j] # "_sample_"
    IN SubSeq(uid, last + 1, Len(uid))

\* every character is one of 0..9, and there is at least one
AllDigits(s) == Len(s) > 0 /\ \A i \in 1..Len(s) : s[i] \in {Digits[d] : d \in 1..10}

RECURSIVE DecimalValue(_, _)
\* the number the digits stand for, acc being the value of those already read
DecimalValue(s, acc) ==
    IF s = <<>> THEN acc
    ELSE DecimalValue(Tail(s),
                      10 * acc + (CHOOSE v \in 0..9 : Digits[v + 1] = Head(s)))

\* C30: the appended generation record stores the caller's prompt unchanged
\* (without the image-generation wrapper), the request's unique_id as
\* evaluation_unique_id, and as training_sample_id the integer formed by the
\* text after the last "_sample_" in unique_id when that text is all digits,
\* and null in every other case (no marker, or a non-digit suffix).
C30_RecordFields ==
    (insertion.called /\ insertion.returned.ok) =>
        /\ Len(insertion.returned.records) = 1
        /\ LET record == insertion.returned.records[1]
               uid == insertion.unique_id
           IN /\ record.prompt_used = insertion.optimized_prompt
              /\ record.evaluation_unique_id = uid
              /\ IF /\ \E i \in 1..Len(uid) : uid[i] = "_sample_"
                    /\ AllDigits(AfterLastMarker(uid))
                 THEN /\ ~record.training_sample_id.null
                      /\ record.training_sample_id.v =
                             DecimalValue(AfterLastMarker(uid), 0)
                 ELSE record.training_sample_id.null

C30_Witness ==
    /\ insertion.called
    /\ insertion.returned.ok
    /\ insertion.unique_id = <<"run", "_sample_", "1", "_sample_", "9">>
    /\ insertion.optimized_prompt = BatchPrompt
    /\ insertion.returned.records[1].prompt_used = BatchPrompt
    /\ insertion.returned.records[1].training_sample_id = SomeInt(9)

\* the place of a position in the order of the handler's steps
StepRank(position) ==
    CASE position = "idle" -> 0
      [] position = "generate" -> 1
      [] position = "store" -> 2
      [] position = "record" -> 3
      [] position = "judge" -> 4
      [] position = "judging" -> 5
      [] OTHER -> 6

\* evaluate_image_prompt has returned a response or raised
Terminated == pc \in {"returned", "raised"}

\* C29: provided every external call eventually returns or fails, every
\* invocation of evaluate_single_sample eventually reaches a terminal outcome
\* (scored or failed) and every invocation of evaluate_image_prompt eventually
\* either returns a response or raises; no step is re-entered.
C29_EveryInvocationTerminates ==
    /\ [][StepRank(pc') > StepRank(pc)]_vars
    /\ (pc = "idle") ~> Terminated
    /\ (pc \in InFlight) ~> (Returned /\ (ScoredOutcome \/ failures # {}))
    /\ [](Terminated => ~ENABLED Next)

C29_Witness ==
    /\ ScoredOutcome
    /\ mode_type = "reference_comparison"
    /\ calls = [generate |-> 1, store |-> 1, record |-> 1, judge |-> 1]
    /\ result.image_similarity_score > 0
    /\ raised = <<>>

\* the records that carry the unique_id
RecordsOf(uid) == {k \in 1..Len(records) : records[k].evaluation_unique_id = uid}

\* the evaluation's insert was made and did not fail
Appended(inv) == inv.drawn.insert = "ok"

\* the score the evaluation has when it runs alone and its external calls
\* deliver the same
ScoreAlone(inv) ==
    IF inv.drawn.net # "ok" \/ ~inv.drawn.image THEN 0
    ELSE IF inv.drawn.upload # "ok" THEN 0
    ELSE IF inv.drawn.insert # "ok" THEN 0
    ELSE IF inv.drawn.text = <<W("I cannot rate these images.")>> THEN 0
    ELSE IF inv.drawn.text = RefText(ComprehensiveCategories, 4, 6)
    THEN smart_normalize_score_difference(-20)
    ELSE smart_normalize_score_difference(37)

\* a finished evaluation stopped where it stops when run alone: at the first
\* external call that failed, or after the judgment
StoppedAsAlone(inv) ==
    /\ (inv.drawn.net = "ok" /\ inv.drawn.image) => inv.drawn.upload # ""
    /\ inv.drawn.upload = "ok" => inv.drawn.insert # ""
    /\ inv.drawn.insert = "ok" => inv.drawn.text # <<>>

\* C28: when several evaluations with pairwise distinct unique_ids run
\* concurrently with any interleaving of their external calls, every
\* evaluation whose record append succeeded has exactly one record carrying its
\* own unique_id, no record is lost, duplicated or overwritten, and each
\* evaluation's outcome is the one it would have when run alone.
C28_ConcurrentEvaluationsIndependent ==
    \A i \in DOMAIN invocations :
        LET inv == invocations[i]
        IN /\ Cardinality(RecordsOf(inv.unique_id)) = IF Appended(inv) THEN 1 ELSE 0
           /\ \A k \in RecordsOf(inv.unique_id) :
                 /\ records[k].generated_image_url = inv.generated_image_url
                 /\ records[k].uploaded_image_url = inv.input_image_url
           /\ Len(records) = Cardinality({n \in DOMAIN invocations :
                                              Appended(invocations[n])})
           /\ inv.pc = "done" => StoppedAsAlone(inv) /\ inv.score = ScoreAlone(inv)



====
